---- MODULE Spec2Model ----
(***************************************************************************)
(* Request adaptation layer of the Copilot executor: the initiator         *)
(* classifier (internal/runtime/executor/copilot_headers.go).  A request   *)
(* is one run of applyCopilotHeaders; requests run concurrently on one     *)
(* executor and share its initiatorCount map under the mutex mu.           *)
(***************************************************************************)
EXTENDS Integers, Sequences, FiniteSets, TLC

(***************************************************************************)
(* Bounds of the model.                                                    *)
(***************************************************************************)
NumRequests == 3
MaxMessages == 2
MaxInput == 2
MaxSetReady == 4
NumCalls == 3

(***************************************************************************)
(* Strings: strings.TrimSpace and strings.ToLower, character by character. *)
(***************************************************************************)
UpperLetters == "ABCDEFGHIJKLMNOPQRSTUVWXYZ"
LowerLetters == "abcdefghijklmnopqrstuvwxyz"

CharAt(s, i) == SubSeq(s, i, i)

IsSpace(c) == c \in {" ", "\t", "\n", "\r"}

LowerOf == [c \in {CharAt(UpperLetters, i) : i \in 1..Len(UpperLetters)} |->
               CharAt(LowerLetters, CHOOSE i \in 1..Len(UpperLetters) : CharAt(UpperLetters, i) = c)]

UpperOf == [c \in {CharAt(LowerLetters, i) : i \in 1..Len(LowerLetters)} |->
               CharAt(UpperLetters, CHOOSE i \in 1..Len(LowerLetters) : CharAt(LowerLetters, i) = c)]

LowerChar(c) == IF c \in DOMAIN LowerOf THEN LowerOf[c] ELSE c

UpperChar(c) == IF c \in DOMAIN UpperOf THEN UpperOf[c] ELSE c

RECURSIVE ToLower(_)
ToLower(s) == IF s = "" THEN "" ELSE LowerChar(Head(s)) \o ToLower(Tail(s))

RECURSIVE TrimLeft(_)
TrimLeft(s) ==
    IF s = "" THEN ""
    ELSE IF IsSpace(Head(s)) THEN TrimLeft(Tail(s)) ELSE s

RECURSIVE TrimRight(_)
TrimRight(s) ==
    IF s = "" THEN ""
    ELSE IF IsSpace(CharAt(s, Len(s))) THEN TrimRight(SubSeq(s, 1, Len(s) - 1)) ELSE s

TrimSpace(s) == TrimRight(TrimLeft(s))

HasPrefix(s, p) == Len(s) >= Len(p) /\ SubSeq(s, 1, Len(p)) = p

TrimPrefix(s, p) == IF HasPrefix(s, p) THEN SubSeq(s, Len(p) + 1, Len(s)) ELSE s

(***************************************************************************)
(* JSON values as gjson.Result sees them.  A field that is not in the      *)
(* document is JAbsent; objects carry their raw text.                      *)
(***************************************************************************)
JAbsent == [t |-> "absent"]
JNull == [t |-> "null"]
JStr(s) == [t |-> "string", s |-> s]
JArr(a) == [t |-> "array", a |-> a]
JObj(raw) == [t |-> "object", raw |-> raw]

Exists(v) == v.t # "absent"

IsArray(v) == v.t = "array"

Array(v) == IF v.t = "array" THEN v.a ELSE <<>>

RECURSIVE Raw(_)
RECURSIVE JoinRaw(_)
JoinRaw(a) ==
    IF a = <<>> THEN ""
    ELSE IF Len(a) = 1 THEN Raw(a[1])
    ELSE Raw(a[1]) \o "," \o JoinRaw(Tail(a))

Raw(v) ==
    CASE v.t = "absent" -> ""
      [] v.t = "null" -> "null"
      [] v.t = "string" -> "\"" \o v.s \o "\""
      [] v.t = "array" -> "[" \o JoinRaw(v.a) \o "]"
      [] v.t = "object" -> v.raw

String(v) ==
    CASE v.t = "absent" -> ""
      [] v.t = "null" -> ""
      [] v.t = "string" -> v.s
      [] OTHER -> Raw(v)

(***************************************************************************)
(* The request payload: a JSON object with the fields the layer reads.     *)
(* Entries of messages/input are objects with role, type and content;      *)
(* content parts are objects with a type.                                  *)
(***************************************************************************)
GetBytes(payload, path) ==
    CASE path = "model" -> payload.model
      [] path = "messages" -> payload.messages
      [] path = "input" -> payload.input
      [] path = "previous_response_id" -> payload.previous_response_id
      [] path = "tools" -> payload.tools
      [] path = "functions" -> payload.functions
      [] path = "tool_choice" -> payload.tool_choice
      [] path = "prompt_cache_key" -> payload.prompt_cache_key
      [] path = "metadata.prompt_cache_key" -> payload.metadata_prompt_cache_key
      [] OTHER -> JAbsent

Get(item, field) ==
    CASE field = "role" -> item.role
      [] field = "type" -> item.type
      [] field = "content" -> item.content
      [] OTHER -> JAbsent

(***************************************************************************)
(* http.Header: nil, or a map from canonical header names to value lists.  *)
(***************************************************************************)
NilHeader == [nil |-> TRUE, m |-> <<>>]
Header(m) == [nil |-> FALSE, m |-> m]

RECURSIVE CanonicalFrom(_, _)
CanonicalFrom(s, upper) ==
    IF s = "" THEN ""
    ELSE LET c == Head(s)
         IN (IF upper THEN UpperChar(c) ELSE LowerChar(c)) \o CanonicalFrom(Tail(s), c = "-")

CanonicalMIMEHeaderKey(s) == CanonicalFrom(s, TRUE)

HeaderGet(h, key) ==
    LET k == CanonicalMIMEHeaderKey(key)
    IN IF h.nil \/ k \notin DOMAIN h.m THEN ""
       ELSE IF Len(h.m[k]) = 0 THEN "" ELSE h.m[k][1]

(***************************************************************************)
(* copilot_headers.go: item predicates.                                    *)
(***************************************************************************)
responsesAPIAgentTypes ==
    { "function_call", "function_call_output", "computer_call", "computer_call_output",
      "web_search_call", "file_search_call", "code_interpreter_call", "local_shell_call",
      "local_shell_call_output", "mcp_call", "mcp_list_tools", "mcp_approval_request",
      "mcp_approval_response", "image_generation_call", "reasoning" }

\* only the exact role assistant counts, not tool
isResponsesAPIAgentItemAssistantOnly(item) ==
    IF String(Get(item, "role")) = "assistant" THEN TRUE
    ELSE String(Get(item, "type")) \in responsesAPIAgentTypes

\* only the role is looked at, not the item type
isResponsesAPIAgentItemRoleOnly(item) ==
    LET role == ToLower(TrimSpace(String(Get(item, "role"))))
    IN role = "assistant" \/ role = "tool"

isResponsesAPIAgentItem(item) ==
    LET role == ToLower(TrimSpace(String(Get(item, "role"))))
    IN IF role = "assistant" \/ role = "tool" THEN TRUE
       ELSE String(Get(item, "type")) \in responsesAPIAgentTypes

isResponsesAPIVisionContent(part) == String(part.type) = "input_image"

(***************************************************************************)
(* copilot_headers.go: hint collection.                                    *)
(***************************************************************************)
\* the value compared without trimming
forceAgentCallFromHeadersNoTrim(headers) ==
    IF headers.nil THEN FALSE
    ELSE ToLower(HeaderGet(headers, "force-copilot-agent")) \in {"1", "true", "t", "yes", "y", "on"}

\* the value compared without lower-casing
forceAgentCallFromHeadersCaseSensitive(headers) ==
    IF headers.nil THEN FALSE
    ELSE TrimSpace(HeaderGet(headers, "force-copilot-agent")) \in {"1", "true", "t", "yes", "y", "on"}

forceAgentCallFromHeaders(headers) ==
    IF headers.nil THEN FALSE
    ELSE LET raw1 == TrimSpace(HeaderGet(headers, "force-copilot-agent"))
             raw == IF raw1 = "" THEN TrimSpace(HeaderGet(headers, "Force-Copilot-Agent")) ELSE raw1
         IN IF raw = "" THEN FALSE
            ELSE ToLower(raw) \in {"1", "true", "t", "yes", "y", "on"}

\* a top-level key that exists is final, blank or not
promptCacheKeyFromPayloadNoFallThrough(payload) ==
    LET v1 == GetBytes(payload, "prompt_cache_key")
        v2 == GetBytes(payload, "metadata.prompt_cache_key")
    IN IF Exists(v1) THEN TrimSpace(String(v1))
       ELSE IF Exists(v2) /\ TrimSpace(String(v2)) # "" THEN TrimSpace(String(v2))
       ELSE ""

promptCacheKeyFromPayload(payload) ==
    LET v1 == GetBytes(payload, "prompt_cache_key")
        v2 == GetBytes(payload, "metadata.prompt_cache_key")
    IN IF Exists(v1) /\ TrimSpace(String(v1)) # "" THEN TrimSpace(String(v1))
       ELSE IF Exists(v2) /\ TrimSpace(String(v2)) # "" THEN TrimSpace(String(v2))
       ELSE ""

\* tools and functions taken as a signal even when empty
topLevelAgentSignalEmptyLists(payload) ==
    \/ Exists(GetBytes(payload, "previous_response_id"))
    \/ IsArray(GetBytes(payload, "tools"))
    \/ IsArray(GetBytes(payload, "functions"))
    \/ LET tc == GetBytes(payload, "tool_choice")
       IN Exists(tc) /\ String(tc) # "none"

topLevelAgentSignal(payload) ==
    \/ Exists(GetBytes(payload, "previous_response_id"))
    \/ IsArray(GetBytes(payload, "tools")) /\ Len(Array(GetBytes(payload, "tools"))) > 0
    \/ IsArray(GetBytes(payload, "functions")) /\ Len(Array(GetBytes(payload, "functions"))) > 0
    \/ LET tc == GetBytes(payload, "tool_choice")
       IN Exists(tc) /\ String(tc) # "none"

contentHasImageURL(content) ==
    /\ IsArray(content)
    /\ \E j \in 1..Len(Array(content)) : String(Array(content)[j].type) = "image_url"

\* an image_url part counts in the input array too
contentHasInputImageOrURL(content) ==
    /\ IsArray(content)
    /\ \E j \in 1..Len(Array(content)) :
          String(Array(content)[j].type) \in {"input_image", "image_url"}

contentHasInputImage(content) ==
    /\ IsArray(content)
    /\ \E j \in 1..Len(Array(content)) : isResponsesAPIVisionContent(Array(content)[j])

\* only assistant and tool count as agent involvement
scanMessageAgentRolesOnly(hints, arr, i) ==
    LET msg == arr[i]
        role == ToLower(TrimSpace(String(Get(msg, "role"))))
        h1 == IF contentHasImageURL(Get(msg, "content"))
              THEN [hints EXCEPT !.hasVision = TRUE] ELSE hints
    IN IF role = "user"
       THEN [h1 EXCEPT !.userFromPayload = TRUE,
                       !.lastUserFromPayload = (@ \/ i = Len(arr))]
       ELSE IF role \in {"assistant", "tool"} THEN [h1 EXCEPT !.agentFromPayload = TRUE]
       ELSE h1

scanMessage(hints, arr, i) ==
    LET msg == arr[i]
        role == ToLower(TrimSpace(String(Get(msg, "role"))))
        h1 == IF contentHasImageURL(Get(msg, "content"))
              THEN [hints EXCEPT !.hasVision = TRUE] ELSE hints
    IN IF role = "user"
       THEN [h1 EXCEPT !.userFromPayload = TRUE,
                       !.lastUserFromPayload = (@ \/ i = Len(arr))]
       ELSE IF role # "" THEN [h1 EXCEPT !.agentFromPayload = TRUE]
       ELSE h1

RECURSIVE scanMessages(_, _, _)
scanMessages(hints, arr, i) ==
    IF i > Len(arr) THEN hints
    ELSE scanMessages(scanMessage(hints, arr, i), arr, i + 1)

scanInputItem(hints, arr, i) ==
    LET item == arr[i]
        role == ToLower(TrimSpace(String(Get(item, "role"))))
        h1 == IF contentHasInputImage(Get(item, "content"))
              THEN [hints EXCEPT !.hasVision = TRUE] ELSE hints
        h2 == IF role = "user"
              THEN [h1 EXCEPT !.userFromPayload = TRUE,
                              !.lastUserFromPayload = (@ \/ i = Len(arr))]
              ELSE h1
        h3 == IF role # "" /\ role # "user"
              THEN [h2 EXCEPT !.agentFromPayload = TRUE] ELSE h2
    IN IF isResponsesAPIAgentItem(item)
       THEN [h3 EXCEPT !.agentFromPayload = TRUE] ELSE h3

RECURSIVE scanInput(_, _, _)
scanInput(hints, arr, i) ==
    IF i > Len(arr) THEN hints
    ELSE scanInput(scanInputItem(hints, arr, i), arr, i + 1)

collectCopilotHeaderHints(payload, headers) ==
    LET h0 == [ hasVision |-> FALSE,
                userFromPayload |-> FALSE,
                lastUserFromPayload |-> FALSE,
                agentFromPayload |-> topLevelAgentSignal(payload),
                forceAgentFromHeaders |-> forceAgentCallFromHeaders(headers),
                promptCacheKey |-> promptCacheKeyFromPayload(payload) ]
        messages == GetBytes(payload, "messages")
        h1 == IF IsArray(messages) THEN scanMessages(h0, Array(messages), 1) ELSE h0
        input == GetBytes(payload, "input")
    IN IF IsArray(input) THEN scanInput(h1, Array(input), 1) ELSE h1

NoHints ==
    [ hasVision |-> FALSE, userFromPayload |-> FALSE, lastUserFromPayload |-> FALSE,
      agentFromPayload |-> FALSE, forceAgentFromHeaders |-> FALSE, promptCacheKey |-> "" ]

(***************************************************************************)
(* The executor's configuration: nil executor, nil config, or a config     *)
(* with a list of CopilotKey entries.                                      *)
(***************************************************************************)
CopilotKey(force, persist) ==
    [ HeaderProfile |-> "", CLIHeaderModels |-> <<>>, VSCodeChatHeaderModels |-> <<>>,
      ForceAgentCall |-> force, AgentInitiatorPersist |-> persist ]

NilExecutor == [nil |-> TRUE, cfgNil |-> TRUE, CopilotKey |-> <<>>]
NilCfgExecutor == [nil |-> FALSE, cfgNil |-> TRUE, CopilotKey |-> <<>>]
Executor(keys) == [nil |-> FALSE, cfgNil |-> FALSE, CopilotKey |-> keys]

\* only the first credential entry is consulted
forceAgentCallEnabledFirstEntry(e) ==
    IF e.nil \/ e.cfgNil THEN FALSE
    ELSE Len(e.CopilotKey) > 0 /\ e.CopilotKey[1].ForceAgentCall

forceAgentCallEnabled(e) ==
    IF e.nil \/ e.cfgNil THEN FALSE
    ELSE \E i \in 1..Len(e.CopilotKey) : e.CopilotKey[i].ForceAgentCall

\* persistence taken as enabled whatever the configuration says
agentInitiatorPersistAlways(e) == TRUE

agentInitiatorPersistEnabled(e) ==
    IF e.nil \/ e.cfgNil THEN FALSE
    ELSE \E i \in 1..Len(e.CopilotKey) : e.CopilotKey[i].AgentInitiatorPersist

(***************************************************************************)
(* copilot_headers.go: header profile selection and application.           *)
(***************************************************************************)
copilotHeaderProfileCLI == "cli"
copilotHeaderProfileVSCodeChat == "vscode-chat"

defaultCopilotCLIHeaderModels ==
    { "claude-sonnet-4.5", "claude-haiku-4.5", "claude-opus-4.5", "claude-sonnet-4",
      "gpt-5.1-codex-max", "gpt-5.1-codex", "gpt-5.2", "gpt-5.1", "gpt-5",
      "gpt-5.1-codex-mini", "gpt-5-mini", "gpt-4o", "gpt-4.1", "gemini-3-pro-preview" }

normalizeModelID(model) == TrimSpace(ToLower(model))

NilEntry == [nil |-> TRUE]
Entry(k) == [nil |-> FALSE, key |-> k]

\* the credential default profile looked at before the per-model lists
copilotHeaderProfileForModelDefaultFirst(entry, model) ==
    LET m == normalizeModelID(model)
        mDeAliased == TrimPrefix(m, "copilot-")
        inList(l) == \E i \in 1..Len(l) : normalizeModelID(l[i]) = mDeAliased
        byDefault == IF mDeAliased \in defaultCopilotCLIHeaderModels
                     THEN copilotHeaderProfileCLI ELSE copilotHeaderProfileVSCodeChat
    IN IF m = "" THEN copilotHeaderProfileCLI
       ELSE IF mDeAliased = "" THEN copilotHeaderProfileCLI
       ELSE IF mDeAliased = "gpt-4" THEN copilotHeaderProfileCLI
       ELSE IF ~entry.nil
       THEN LET k == entry.key
                p == ToLower(TrimSpace(k.HeaderProfile))
            IN IF p = copilotHeaderProfileCLI THEN copilotHeaderProfileCLI
               ELSE IF p = copilotHeaderProfileVSCodeChat THEN copilotHeaderProfileVSCodeChat
               ELSE IF inList(k.CLIHeaderModels) THEN copilotHeaderProfileCLI
               ELSE IF inList(k.VSCodeChatHeaderModels) THEN copilotHeaderProfileVSCodeChat
               ELSE byDefault
       ELSE byDefault

copilotHeaderProfileForModel(entry, model) ==
    LET m == normalizeModelID(model)
        mDeAliased == TrimPrefix(m, "copilot-")
        inList(l) == \E i \in 1..Len(l) : normalizeModelID(l[i]) = mDeAliased
        byDefault == IF mDeAliased \in defaultCopilotCLIHeaderModels
                     THEN copilotHeaderProfileCLI ELSE copilotHeaderProfileVSCodeChat
    IN IF m = "" THEN copilotHeaderProfileCLI
       ELSE IF mDeAliased = "" THEN copilotHeaderProfileCLI
       ELSE IF mDeAliased = "gpt-4" THEN copilotHeaderProfileCLI
       ELSE IF ~entry.nil
       THEN LET k == entry.key
                p == ToLower(TrimSpace(k.HeaderProfile))
            IN IF inList(k.CLIHeaderModels) THEN copilotHeaderProfileCLI
               ELSE IF inList(k.VSCodeChatHeaderModels) THEN copilotHeaderProfileVSCodeChat
               ELSE IF p = copilotHeaderProfileCLI THEN copilotHeaderProfileCLI
               ELSE IF p = copilotHeaderProfileVSCodeChat THEN copilotHeaderProfileVSCodeChat
               ELSE byDefault
       ELSE byDefault

HeaderSet(m, k, v) == (CanonicalMIMEHeaderKey(k) :> <<v>>) @@ m

RECURSIVE HeaderSetAll(_, _)
HeaderSetAll(m, kvs) ==
    IF kvs = <<>> THEN m
    ELSE HeaderSetAll(HeaderSet(m, kvs[1][1], kvs[1][2]), Tail(kvs))

\* the headers the VS Code Copilot Chat profile sets, as one map
vscodeChatHeaders ==
    HeaderSetAll(<<>>, << <<"Copilot-Integration-Id", "vscode-chat">>,
                          <<"Editor-Plugin-Version", "copilot-chat/0.35.2">>,
                          <<"Editor-Version", "vscode/1.108.0-insider">>,
                          <<"VScode-SessionId", "00000000-0000-0000-0000-000000000000">>,
                          <<"VScode-MachineId", "00000000-0000-0000-0000-000000000000">>,
                          <<"OpenAI-Intent", "conversation-agent">> >>)

\* the profile also stamps the request as a user call
applyCopilotVSCodeChatHeaderProfileAsUser(m) ==
    HeaderSet(vscodeChatHeaders @@ m, "X-Initiator", "user")

applyCopilotVSCodeChatHeaderProfile(m) == vscodeChatHeaders @@ m

applyCopilotCLIHeaderProfile(m) == m

copilotKeyConfig(e) ==
    IF e.nil \/ e.cfgNil \/ Len(e.CopilotKey) = 0 THEN NilEntry
    ELSE Entry(e.CopilotKey[1])

applyCopilotHeaderProfile(e, m, model) ==
    LET profile == copilotHeaderProfileForModel(copilotKeyConfig(e), model)
    IN IF profile = copilotHeaderProfileVSCodeChat
       THEN applyCopilotVSCodeChatHeaderProfile(m)
       ELSE applyCopilotCLIHeaderProfile(m)

(***************************************************************************)
(* copilotauth.CopilotHeaders and copilotauth.CopilotUserAgent are defined *)
(* outside the files at hand; only the vision header they produce is       *)
(* represented.                                                            *)
(***************************************************************************)
CopilotUserAgent == "copilotauth.CopilotUserAgent"

CopilotHeaders(hasVision) ==
    IF hasVision THEN << <<"Copilot-Vision-Request", "true">> >> ELSE <<>>

(***************************************************************************)
(* copilot_headers.go: the headers applyCopilotHeaders leaves on the       *)
(* outbound request, given the classification.                             *)
(***************************************************************************)
\* the headers set unconditionally ("Align with Copilot CLI defaults"), as one map
cliDefaultHeaders ==
    HeaderSetAll(<<>>, << <<"X-Interaction-Type", "conversation-agent">>,
                          <<"Openai-Intent", "conversation-agent">>,
                          <<"X-Stainless-Retry-Count", "0">>,
                          <<"X-Stainless-Lang", "js">>,
                          <<"X-Stainless-Package-Version", "5.20.1">>,
                          <<"X-Stainless-OS", "Linux">>,
                          <<"X-Stainless-Arch", "arm64">>,
                          <<"X-Stainless-Runtime", "node">>,
                          <<"X-Stainless-Runtime-Version", "v22.15.0">>,
                          <<"User-Agent", CopilotUserAgent>> >>)

\* X-Initiator is stamped on agent calls only
initiatorHeaderAgentOnly(isAgentCall) ==
    IF isAgentCall THEN HeaderSet(<<>>, "X-Initiator", "agent") ELSE <<>>

initiatorHeader(isAgentCall) ==
    HeaderSet(<<>>, "X-Initiator", IF isAgentCall THEN "agent" ELSE "user")

stampHeaders(e, payload, h, isAgentCall) ==
    LET m1 == HeaderSetAll(<<>>, CopilotHeaders(h.hasVision))
        m2 == cliDefaultHeaders @@ m1
        m3 == initiatorHeader(isAgentCall) @@ m2
    IN applyCopilotHeaderProfile(e, m3, String(GetBytes(payload, "model")))

(***************************************************************************)
(* copilot_headers.go: shouldUseAgentInitiator up to the persistence rule. *)
(* The result names the rule that decides: "a".."e" give agent, "user" is  *)
(* the final return false, "persist" enters the locked read-and-increment. *)
(***************************************************************************)
\* the rules without the two user-content checks (d and e)
initiatorRuleNoUserChecks(e, h) ==
    IF h.forceAgentFromHeaders THEN "a"
    ELSE IF ~e.nil /\ forceAgentCallEnabled(e) THEN "b"
    ELSE IF h.agentFromPayload THEN "c"
    ELSE IF ~e.nil /\ agentInitiatorPersistEnabled(e) /\ h.promptCacheKey # "" THEN "persist"
    ELSE "user"

\* the counter is read and incremented before the payload is looked at
initiatorRuleCountFirst(e, h) ==
    IF h.forceAgentFromHeaders THEN "a"
    ELSE IF ~e.nil /\ forceAgentCallEnabled(e) THEN "b"
    ELSE IF ~e.nil /\ agentInitiatorPersistEnabled(e) /\ h.promptCacheKey # "" THEN "persist"
    ELSE IF h.agentFromPayload THEN "c"
    ELSE IF ~h.userFromPayload THEN "d"
    ELSE IF ~h.lastUserFromPayload THEN "e"
    ELSE "user"

initiatorRule(e, h) ==
    IF h.forceAgentFromHeaders THEN "a"
    ELSE IF ~e.nil /\ forceAgentCallEnabled(e) THEN "b"
    ELSE IF h.agentFromPayload THEN "c"
    ELSE IF ~h.userFromPayload THEN "d"
    ELSE IF ~h.lastUserFromPayload THEN "e"
    ELSE IF ~e.nil /\ agentInitiatorPersistEnabled(e) /\ h.promptCacheKey # "" THEN "persist"
    ELSE "user"

(***************************************************************************)
(* The initiatorCount map: a missing key reads as 0.                       *)
(***************************************************************************)
EmptyMap == <<>>
MapGet(m, k) == IF k \in DOMAIN m THEN m[k] ELSE 0
MapSet(m, k, v) == (k :> v) @@ m

(***************************************************************************)
(* State.                                                                  *)
(***************************************************************************)
VARIABLES
    executor,        \* the CopilotExecutor's configuration (e, e.cfg)
    initiatorCount,  \* e.initiatorCount
    mu,              \* e.mu: 0 when unlocked, else the request holding it
    pc,              \* position of each request in applyCopilotHeaders
    payload,         \* payload of each request
    incoming,        \* inbound headers of each request
    hints,           \* hints := collectCopilotHeaderHints(payload, incoming)
    count,           \* the local count of shouldUseAgentInitiator
    isAgentCall,     \* isAgentCall := e.shouldUseAgentInitiator(hints)
    outbound,        \* r.Header of the outbound request
    seed,            \* history: e.initiatorCount when the first request began
    doneBefore,      \* history: requests that had returned when it began
    applied,         \* a function of the layer applied on its own: name, arguments, result
    health,          \* the health Handler, its routes, and the calls made on it
    metrics          \* the metrics Module, its samples, and the calls made on it

vars == << executor, initiatorCount, mu, pc, payload, incoming, hints, count,
           isAgentCall, outbound, seed, doneBefore, applied, health, metrics >>

Requests == 1..NumRequests

\* no function is applied on its own
NoCall == [fn |-> "", args |-> <<>>, done |-> FALSE, result |-> <<>>]

NoPayload ==
    [ model |-> JAbsent, messages |-> JAbsent, input |-> JAbsent,
      previous_response_id |-> JAbsent, tools |-> JAbsent, functions |-> JAbsent,
      tool_choice |-> JAbsent, prompt_cache_key |-> JAbsent,
      metadata_prompt_cache_key |-> JAbsent ]

InitRequests ==
    /\ mu = 0
    /\ pc = [r \in Requests |-> "idle"]
    /\ payload = [r \in Requests |-> NoPayload]
    /\ incoming = [r \in Requests |-> NilHeader]
    /\ hints = [r \in Requests |-> NoHints]
    /\ count = [r \in Requests |-> 0]
    /\ isAgentCall = [r \in Requests |-> FALSE]
    /\ outbound = [r \in Requests |-> <<>>]
    /\ doneBefore = [r \in Requests |-> {}]

(***************************************************************************)
(* applyCopilotHeaders, step by step.                                      *)
(***************************************************************************)
\* hints := collectCopilotHeaderHints(...); shouldUseAgentInitiator, rules a-e
\* and the test of the persistence rule; unless the locked section is entered,
\* the call runs to its end (it touches nothing shared).
Begin(r, pl, inc) ==
    /\ pc[r] = "idle"
    /\ LET h == collectCopilotHeaderHints(pl, inc)
           rule == initiatorRule(executor, h)
       IN /\ payload' = [payload EXCEPT ![r] = pl]
          /\ incoming' = [incoming EXCEPT ![r] = inc]
          /\ hints' = [hints EXCEPT ![r] = h]
          /\ doneBefore' = [doneBefore EXCEPT ![r] = {q \in Requests : pc[q] = "done"}]
          /\ IF rule = "persist"
             THEN /\ pc' = [pc EXCEPT ![r] = "lock"]
                  /\ UNCHANGED << isAgentCall, outbound >>
             ELSE /\ isAgentCall' = [isAgentCall EXCEPT ![r] = (rule # "user")]
                  /\ outbound' = [outbound EXCEPT ![r] = stampHeaders(executor, pl, h, rule # "user")]
                  /\ pc' = [pc EXCEPT ![r] = "done"]
    /\ UNCHANGED << health, metrics, applied, executor, initiatorCount, mu, count, seed >>

\* a Lock that does not wait for the holder
muFreeNoWait(r) == TRUE

muFree(r) == mu = 0

\* e.mu.Lock()
Lock(r) ==
    /\ pc[r] = "lock"
    /\ muFree(r)
    /\ mu' = r
    /\ pc' = [pc EXCEPT ![r] = "read"]
    /\ UNCHANGED << health, metrics, applied, executor, initiatorCount, payload, incoming, hints, count,
                    isAgentCall, outbound, seed, doneBefore >>

\* count := e.initiatorCount[h.promptCacheKey]
Read(r) ==
    /\ pc[r] = "read"
    /\ count' = [count EXCEPT ![r] = MapGet(initiatorCount, hints[r].promptCacheKey)]
    /\ pc' = [pc EXCEPT ![r] = "write"]
    /\ UNCHANGED << health, metrics, applied, executor, initiatorCount, mu, payload, incoming, hints,
                    isAgentCall, outbound, seed, doneBefore >>

\* the count written back unchanged
incrementedNot(c) == c

incremented(c) == c + 1

\* e.initiatorCount[h.promptCacheKey] = count + 1
Write(r) ==
    /\ pc[r] = "write"
    /\ initiatorCount' = MapSet(initiatorCount, hints[r].promptCacheKey, incremented(count[r]))
    /\ pc' = [pc EXCEPT ![r] = "unlock"]
    /\ UNCHANGED << health, metrics, applied, executor, mu, payload, incoming, hints, count,
                    isAgentCall, outbound, seed, doneBefore >>

\* agent only from the third call on
persistedAgentLate(c) == c > 1

persistedAgent(c) == c > 0

\* e.mu.Unlock(); return count > 0; then the rest of applyCopilotHeaders
Unlock(r) ==
    /\ pc[r] = "unlock"
    /\ mu' = 0
    /\ isAgentCall' = [isAgentCall EXCEPT ![r] = persistedAgent(count[r])]
    /\ outbound' = [outbound EXCEPT ![r] =
                       stampHeaders(executor, payload[r], hints[r], persistedAgent(count[r]))]
    /\ pc' = [pc EXCEPT ![r] = "done"]
    /\ UNCHANGED << health, metrics, applied, executor, initiatorCount, payload, incoming, hints, count,
                    seed, doneBefore >>

(***************************************************************************)
(* The health package: Handler.  health holds the handler's ready flag,    *)
(* the routes registered on the engine, the SetReady calls made so far and *)
(* the last response with the number of SetReady calls made before it.     *)
(***************************************************************************)
NoResponse == [path |-> "", code |-> 0, status |-> "", after |-> 0]

\* a handler that starts ready
NewHandlerReady == [ready |-> TRUE, routes |-> {}, setReady |-> << >>, response |-> NoResponse]

NewHandler == [ready |-> FALSE, routes |-> {}, setReady |-> << >>, response |-> NoResponse]

StatusOK == 200
StatusNotFound == 404
StatusServiceUnavailable == 503

respond(path, code, status) ==
    health' = [health EXCEPT !.response = [path |-> path, code |-> code, status |-> status,
                                            after |-> Len(health.setReady)]]

idleLayer ==
    UNCHANGED << applied, executor, initiatorCount, mu, pc, payload, incoming, hints, count,
                 isAgentCall, outbound, seed, doneBefore >>

\* h.ready.Store(ready)
SetReady(ready) ==
    /\ Len(health.setReady) < MaxSetReady
    /\ health' = [health EXCEPT !.ready = ready, !.setReady = Append(@, ready)]
    /\ idleLayer /\ UNCHANGED metrics

\* GET /health
Health ==
    /\ "/health" \in health.routes
    /\ respond("/health", StatusOK, "ok")
    /\ idleLayer /\ UNCHANGED metrics

\* GET /health/ready
Ready ==
    /\ "/health/ready" \in health.routes
    /\ IF health.ready
       THEN respond("/health/ready", StatusOK, "ready")
       ELSE respond("/health/ready", StatusServiceUnavailable, "not ready")
    /\ idleLayer /\ UNCHANGED metrics

\* GET /health/live
Live ==
    /\ "/health/live" \in health.routes
    /\ respond("/health/live", StatusOK, "live")
    /\ idleLayer /\ UNCHANGED metrics

RegisterRoutes ==
    /\ health.routes = {}
    /\ health' = [health EXCEPT !.routes = { "/health", "/health/ready", "/health/live" }]
    /\ idleLayer /\ UNCHANGED metrics

(***************************************************************************)
(* The metrics package: Module.  metrics holds the module's fields (mu is  *)
(* 0 when unlocked, else the caller holding it; collectors is the set of   *)
(* collector fields that are not nil), the number of samples recorded into *)
(* each collector, and the calls made on the module: each caller's         *)
(* position, arguments, local variables and result.                        *)
(***************************************************************************)
Callers == 1..NumCalls

\* the collector fields, in the order Register creates them
Collectors ==
    << "requestsTotal", "requestDuration", "tokensTotal", "credentialsGauge", "errorsTotal" >>

\* the collectors each recording method tests for nil and then uses
collectorsOf ==
    [ RecordRequest |-> { "requestsTotal", "requestDuration" },
      RecordTokens |-> { "tokensTotal" },
      SetCredentialsCount |-> { "credentialsGauge" },
      RecordError |-> { "errorsTotal" } ]

\* live is history: at some moment of the call the module was enabled and
\* Register had returned or was holding the lock
NoMetricsCall ==
    [ op |-> "", pc |-> "idle", cfg |-> "", tokens |-> 0, enabled |-> FALSE, next |-> 0,
      status |-> "", code |-> 0, changed |-> FALSE, registeredBefore |-> FALSE,
      live |-> FALSE ]

New ==
    [ mu |-> 0, enabled |-> FALSE, registered |-> FALSE, registry |-> {},
      httpHandler |-> FALSE, route |-> FALSE, collectors |-> {},
      samples |-> [c \in { Collectors[i] : i \in 1..Len(Collectors) } |-> 0],
      calls |-> [p \in Callers |-> NoMetricsCall] ]

\* ctx.Config != nil && ctx.Config.MetricsEnabled
metricsEnabledIn(cfg) == cfg = "on"

\* callers are interchangeable: they call in the order of their numbers
MayCall(p) ==
    /\ metrics.calls[p].pc = "idle"
    /\ IF p = 1 THEN TRUE ELSE metrics.calls[p - 1].pc # "idle"

\* the calls in progress see the module as it now is
witnessed(calls, enabled, registered) ==
    [q \in Callers |->
        IF calls[q].pc = "check" THEN [calls[q] EXCEPT !.live = @ \/ (enabled /\ registered)]
        ELSE calls[q]]

\* Register up to the creation of the registry; a second Register returns nil
Register(p, cfg) ==
    /\ MayCall(p)
    /\ metrics.mu = 0
    /\ LET call == [NoMetricsCall EXCEPT !.op = "Register", !.cfg = cfg,
                                         !.registeredBefore = metrics.registered]
       IN IF metrics.registered
          THEN metrics' = [metrics EXCEPT !.calls[p] = [call EXCEPT !.pc = "done", !.status = "nil"]]
          ELSE metrics' = [metrics EXCEPT
                              !.mu = p, !.enabled = metricsEnabledIn(cfg),
                              !.calls = [witnessed(metrics.calls, metricsEnabledIn(cfg), TRUE) EXCEPT
                                            ![p] = [call EXCEPT !.pc = "collectors", !.next = 1]]]
    /\ idleLayer /\ UNCHANGED health

\* m.requestsTotal = ..., m.requestDuration = ..., and so on: one field at a time
RegisterCollector(p) ==
    /\ metrics.calls[p].pc = "collectors"
    /\ metrics.calls[p].next <= Len(Collectors)
    /\ metrics' = [metrics EXCEPT !.collectors = @ \cup { Collectors[metrics.calls[p].next] },
                                  !.calls[p].next = @ + 1]
    /\ idleLayer /\ UNCHANGED health

\* MustRegister, the HTTP handler, the route, m.registered = true, unlock, return nil
RegisterFinish(p) ==
    /\ metrics.calls[p].pc = "collectors"
    /\ metrics.calls[p].next > Len(Collectors)
    /\ metrics' = [metrics EXCEPT
                      !.registry = metrics.collectors, !.httpHandler = TRUE, !.route = TRUE,
                      !.registered = TRUE, !.mu = 0,
                      !.calls = [witnessed(metrics.calls, metrics.enabled, TRUE) EXCEPT
                                    ![p].pc = "done", ![p].status = "nil"]]
    /\ idleLayer /\ UNCHANGED health

OnConfigUpdated(p, cfg) ==
    /\ MayCall(p)
    /\ metrics.mu = 0
    /\ LET enabled == IF cfg # "nil" THEN cfg = "on" ELSE metrics.enabled
       IN metrics' = [metrics EXCEPT
                         !.enabled = enabled,
                         !.calls = [witnessed(metrics.calls, enabled, metrics.registered) EXCEPT
                                       ![p] = [NoMetricsCall EXCEPT !.op = "OnConfigUpdated",
                                                 !.cfg = cfg, !.pc = "done", !.status = "nil"]]]
    /\ idleLayer /\ UNCHANGED health

\* GET /metrics
metricsHandler(p) ==
    /\ MayCall(p)
    /\ metrics.route
    /\ metrics.mu = 0
    /\ LET enabled == metrics.enabled
           handler == metrics.httpHandler
       IN metrics' = [metrics EXCEPT !.calls[p] =
                         [NoMetricsCall EXCEPT
                             !.op = "metricsHandler", !.pc = "done", !.enabled = enabled,
                             !.status = "answered",
                             !.code = IF ~enabled THEN StatusNotFound
                                      ELSE IF ~handler THEN StatusServiceUnavailable
                                      ELSE StatusOK]]
    /\ idleLayer /\ UNCHANGED health

\* RecordRequest, RecordTokens, SetCredentialsCount, RecordError: the locked
\* read of m.enabled
RecordBegin(p, op, tokens) ==
    /\ MayCall(p)
    /\ metrics.mu = 0
    /\ metrics' = [metrics EXCEPT !.calls[p] =
                      [NoMetricsCall EXCEPT
                          !.op = op, !.tokens = tokens, !.pc = "check",
                          !.enabled = metrics.enabled,
                          !.registeredBefore = metrics.registered,
                          !.live = metrics.enabled /\ metrics.registered]]
    /\ idleLayer /\ UNCHANGED health

\* m.requestsTotal == nil || m.requestDuration == nil, read without the lock
collectorNil(m, op) == ~(collectorsOf[op] \subseteq m.collectors)

\* the rest of a recording method: the test of enabled and of the collectors,
\* and the sample
RecordEnd(p) ==
    /\ metrics.calls[p].pc = "check"
    /\ LET call == metrics.calls[p]
       IN IF ~call.enabled \/ collectorNil(metrics, call.op)
          THEN metrics' = [metrics EXCEPT !.calls[p].pc = "done", !.calls[p].status = "returned"]
          ELSE IF call.op = "RecordTokens" /\ call.tokens <= 0
          THEN metrics' = [metrics EXCEPT !.calls[p].pc = "done", !.calls[p].status = "recorded"]
          ELSE metrics' = [metrics EXCEPT
                              !.samples = [c \in DOMAIN @ |->
                                             IF c \in collectorsOf[call.op] THEN @[c] + 1 ELSE @[c]],
                              !.calls[p].pc = "done", !.calls[p].status = "recorded",
                              !.calls[p].changed = TRUE]
    /\ idleLayer /\ UNCHANGED health

(***************************************************************************)
(* Inputs: payloads, inbound headers and configurations.                   *)
(***************************************************************************)
SeqsUpTo(S, n) == UNION { [1..k -> S] : k \in 0..n }

Msg(role) == [role |-> role, type |-> JAbsent, content |-> JStr("hello")]

Item(role, type) ==
    [role |-> role, type |-> type,
     content |-> JArr(<< [type |-> JStr("input_text")] >>)]

UserMsg == Msg(JStr("user"))
UserItem == Item(JStr("user"), JAbsent)

MsgRoles == { JAbsent, JStr("user"), JStr(" User"), JStr("assistant"), JStr("tool"),
              JStr("system") }
MsgEntries == { Msg(role) : role \in MsgRoles }

ItemRoles == { JAbsent, JStr("user"), JStr("Assistant "), JStr("developer") }
ItemTypes == { JAbsent, JStr("function_call"), JStr("item_reference") }
InputItems == { Item(role, type) : role \in ItemRoles, type \in ItemTypes }

MsgArrays == {JAbsent} \cup { JArr(a) : a \in SeqsUpTo(MsgEntries, MaxMessages) }
InputArrays == {JAbsent} \cup { JArr(a) : a \in SeqsUpTo(InputItems, MaxInput) }

\* the other array of a payload that varies one array
SmallMessages ==
    { JAbsent, JArr(<< UserMsg >>), JArr(<< UserMsg, Msg(JAbsent) >>),
      JArr(<< UserMsg, Msg(JStr("assistant")) >>) }
SmallInputs ==
    { JAbsent, JArr(<<>>), JArr(<< UserItem >>),
      JArr(<< Item(JAbsent, JStr("item_reference")) >>),
      JArr(<< UserItem, Item(JAbsent, JStr("function_call")) >>) }

K1 == "thread-1"
K2 == "thread-2"

\* a payload varying the two arrays, on the cache key K1
ArrayPayload(m, i) ==
    [NoPayload EXCEPT !.messages = m, !.input = i, !.prompt_cache_key = JStr(K1)]

\* a payload varying the top-level fields
TopPayload(p, t, f, c, m) ==
    [NoPayload EXCEPT !.previous_response_id = p, !.tools = t, !.functions = f,
                      !.tool_choice = c, !.messages = m,
                      !.metadata_prompt_cache_key = JStr(K1)]

PrevIDs == { JAbsent, JNull, JStr(""), JStr("resp_1") }
ToolLists == { JAbsent, JArr(<<>>), JArr(<< JObj("{}") >>) }
ToolChoices == { JAbsent, JNull, JStr(""), JStr("none"), JStr("None"), JStr("auto"), JObj("{}") }
TopMessages == { JAbsent, JArr(<< UserMsg >>), JArr(<< UserMsg, Msg(JStr("assistant")) >>) }

\* a single user message under the forms of the cache key
KeyPayload(k, mk) ==
    [NoPayload EXCEPT !.input = JArr(<< UserItem >>), !.prompt_cache_key = k,
                      !.metadata_prompt_cache_key = mk]

TopKeys == { JAbsent, JNull, JStr(""), JStr("  "), JStr(K1), JStr(" thread-2 ") }
MetaKeys == { JAbsent, JStr(" "), JStr(K2) }

\* entries with multi-part content, with and without an image part
Part(type) == [type |-> JStr(type)]

VisionMsgEntries ==
    { UserMsg,
      [UserMsg EXCEPT !.content = JArr(<< Part("text"), Part("image_url") >>)],
      [UserMsg EXCEPT !.content = JObj("{\"type\":\"image_url\"}")],
      [Msg(JStr("assistant")) EXCEPT !.content = JArr(<< Part("input_image") >>)] }
VisionInputItems ==
    { UserItem,
      [UserItem EXCEPT !.content = JArr(<< Part("input_text"), Part("input_image") >>)],
      [Item(JStr("assistant"), JAbsent) EXCEPT !.content = JArr(<< Part("image_url") >>)] }

VisionMessages == {JAbsent} \cup { JArr(a) : a \in SeqsUpTo(VisionMsgEntries, MaxMessages) }
VisionInputs == {JAbsent} \cup { JArr(a) : a \in SeqsUpTo(VisionInputItems, MaxInput) }

\* a model of the built-in allowlist and one outside it
Models == { JStr("gpt-5"), JStr("copilot-gemini-2.5-pro") }

\* a payload varying the content parts and the model
VisionPayload(model, m, i) ==
    [NoPayload EXCEPT !.model = model, !.messages = m, !.input = i,
                      !.prompt_cache_key = JStr(K1)]

ForceHeader(v) == Header("Force-Copilot-Agent" :> << v >>)

Incomings ==
    { NilHeader, Header(<<>>), ForceHeader(" TRUE "), ForceHeader("yes"), ForceHeader("0"),
      ForceHeader("") }

PlainKey == CopilotKey(FALSE, FALSE)
PersistKey == CopilotKey(FALSE, TRUE)
ForceKey == CopilotKey(TRUE, FALSE)

Executors ==
    { NilExecutor, NilCfgExecutor, Executor(<<>>), Executor(<< PlainKey >>),
      Executor(<< PersistKey >>), Executor(<< ForceKey >>),
      Executor(<< PlainKey, PersistKey >>), Executor(<< PlainKey, CopilotKey(TRUE, TRUE) >>) }

(***************************************************************************)
(* Spec: NumRequests requests run concurrently on a new executor.          *)
(***************************************************************************)
UserPayload(k) == [NoPayload EXCEPT !.messages = JArr(<< UserMsg >>), !.prompt_cache_key = k]

RaceInputs ==
    { << UserPayload(JStr(K1)), NilHeader >>,
      << UserPayload(JStr(K2)), Header(<<>>) >>,
      << UserPayload(JAbsent), NilHeader >>,
      << UserPayload(JStr(K1)), ForceHeader("true") >>,
      << [UserPayload(JStr(K1)) EXCEPT !.messages = JArr(<< UserMsg, Msg(JStr("assistant")) >>)],
         NilHeader >>,
      << [UserPayload(JStr(K1)) EXCEPT !.messages = JArr(<< >>)], NilHeader >>,
      << [UserPayload(JStr(K1)) EXCEPT !.messages = JArr(<< UserMsg, Msg(JAbsent) >>)],
         NilHeader >> }

RaceExecutors == { NilCfgExecutor, Executor(<< PlainKey, PersistKey >>), Executor(<< ForceKey >>) }

Init ==
    /\ executor \in RaceExecutors
    /\ initiatorCount = EmptyMap
    /\ seed = initiatorCount
    /\ InitRequests
    /\ applied = NoCall
    /\ health = NewHandler
    /\ metrics = New

\* requests are interchangeable: they begin in the order of their numbers
MayBegin(r) == IF r = 1 THEN TRUE ELSE pc[r - 1] # "idle"

Call(r) ==
    /\ pc[r] = "idle"
    /\ MayBegin(r)
    /\ \E in \in RaceInputs : Begin(r, in[1], in[2])

Next ==
    \E r \in Requests :
        \/ Call(r)
        \/ Lock(r)
        \/ Read(r)
        \/ Write(r)
        \/ Unlock(r)

Spec == Init /\ [][Next]_vars

(***************************************************************************)
(* SpecSeq: one request runs alone on an executor that has or has not      *)
(* counted K1 before, over the whole range of payloads.                    *)
(***************************************************************************)
Seeded == MapSet(EmptyMap, K1, 1)

\* configurations under which the payloads varying arrays and top-level fields are tried
ArrayExecutors == { Executor(<< PersistKey >>), Executor(<< ForceKey >>), NilCfgExecutor }

InitSeq ==
    /\ executor \in Executors
    /\ initiatorCount \in
          IF agentInitiatorPersistEnabled(executor) THEN { EmptyMap, Seeded } ELSE { EmptyMap }
    /\ seed = initiatorCount
    /\ InitRequests
    /\ applied = NoCall
    /\ health = NewHandler
    /\ metrics = New

CallMessages ==
    /\ pc[1] = "idle"
    /\ executor \in ArrayExecutors
    /\ \E m \in MsgArrays, i \in SmallInputs : Begin(1, ArrayPayload(m, i), NilHeader)

CallInput ==
    /\ pc[1] = "idle"
    /\ executor \in ArrayExecutors
    /\ \E m \in SmallMessages, i \in InputArrays : Begin(1, ArrayPayload(m, i), NilHeader)

CallTop ==
    /\ pc[1] = "idle"
    /\ executor \in ArrayExecutors
    /\ \E p \in PrevIDs, t \in ToolLists, f \in ToolLists, c \in ToolChoices,
          m \in TopMessages, inc \in { NilHeader, ForceHeader(" TRUE ") } :
          Begin(1, TopPayload(p, t, f, c, m), inc)

CallVision ==
    /\ pc[1] = "idle"
    /\ executor \in ArrayExecutors
    /\ \E model \in Models, m \in VisionMessages, i \in VisionInputs :
          Begin(1, VisionPayload(model, m, i), NilHeader)

CallKey ==
    /\ pc[1] = "idle"
    /\ \E k \in TopKeys, mk \in MetaKeys, inc \in Incomings : Begin(1, KeyPayload(k, mk), inc)

NextSeq ==
    \/ CallMessages
    \/ CallInput
    \/ CallTop
    \/ CallVision
    \/ CallKey
    \/ Lock(1)
    \/ Read(1)
    \/ Write(1)
    \/ Unlock(1)

SpecSeq == InitSeq /\ [][NextSeq]_vars

(***************************************************************************)
(* resolveCodexAlias: the alias families and the efforts each accepts, as  *)
(* the specification and TestResolveCodexAlias give them.  The longest     *)
(* family whose name followed by a hyphen begins the model name fixes the  *)
(* family; the rest is the effort.                                         *)
(***************************************************************************)
codexAliasFamilies ==
    << "gpt-5.1-codex-max", "gpt-5.2-codex", "gpt-5-codex", "gpt-5.1", "gpt-5.2", "gpt-5" >>

codexAliasEfforts ==
    [ f \in { codexAliasFamilies[i] : i \in 1..Len(codexAliasFamilies) } |->
        CASE f \in {"gpt-5", "gpt-5-codex"} -> {"minimal", "low", "medium", "high"}
          [] f = "gpt-5.1" -> {"none", "low", "medium", "high"}
          [] OTHER -> {"none", "low", "medium", "high", "xhigh"} ]

NoAlias == [baseModel |-> "", effort |-> "", ok |-> FALSE]

\* the families tried in this order, the first that fits decides
resolveAliasIn(families, modelName) ==
    LET fits == { i \in 1..Len(families) : HasPrefix(modelName, families[i] \o "-") }
    IN IF fits = {} THEN NoAlias
       ELSE LET f == families[CHOOSE i \in fits : \A j \in fits : i <= j]
                effort == TrimPrefix(modelName, f \o "-")
            IN IF effort \in codexAliasEfforts[f]
               THEN [baseModel |-> f, effort |-> effort, ok |-> TRUE]
               ELSE NoAlias

\* the shortest family that fits decides
resolveCodexAliasShortestFirst(modelName) ==
    resolveAliasIn([i \in 1..Len(codexAliasFamilies) |->
                       codexAliasFamilies[Len(codexAliasFamilies) + 1 - i]], modelName)

resolveCodexAlias(modelName) == resolveAliasIn(codexAliasFamilies, modelName)

(***************************************************************************)
(* setReasoningEffortByAlias, as the specification's PayloadMutator and    *)
(* TestSetReasoningEffortByAlias give it.  reasoning.effort and            *)
(* reasoning.summary are the fields reasoning_effort and reasoning_summary *)
(* of the payload record.                                                  *)
(***************************************************************************)
\* reasoning.effort is written whatever the effort is
setReasoningEffortByAliasAlways(body, baseModel, effort) ==
    [body EXCEPT !.model = JStr(baseModel),
                    !.reasoning_effort = JStr(ToLower(TrimSpace(effort)))]

setReasoningEffortByAlias(body, baseModel, effort) ==
    LET withModel == [body EXCEPT !.model = JStr(baseModel)]
        normalized == ToLower(TrimSpace(effort))
    IN IF normalized = "" THEN withModel
       ELSE [withModel EXCEPT !.reasoning_effort = JStr(normalized)]

(***************************************************************************)
(* The model catalog: mergeEssentialCopilotModels and                      *)
(* registry.GenerateCopilotAliases, as the specification's                 *)
(* ModelRegistryMerger and their tests give them.  A catalog is a sequence *)
(* of ModelInfo records.                                                   *)
(***************************************************************************)
ModelInfo(id, displayName, description) ==
    [ ID |-> id, Object |-> "", Created |-> 0, OwnedBy |-> "copilot", Type |-> "",
      DisplayName |-> displayName, Description |-> description,
      ContextLength |-> 0, MaxCompletionTokens |-> 0, InputTokenLimit |-> 0,
      OutputTokenLimit |-> 0, SupportedParameters |-> {} ]

essentialCopilotModels ==
    << [ ModelInfo("gemini-3-flash-preview", "Gemini 3 Flash (Preview)", "") EXCEPT
           !.Object = "model", !.Type = "copilot", !.ContextLength = 128000,
           !.MaxCompletionTokens = 16384, !.SupportedParameters = { "tools" } ] >>

\* is a model of this ID, compared with or without regard to case, in the catalog
hasModelID(models, id, foldCase) ==
    \E i \in 1..Len(models) :
        IF foldCase THEN ToLower(models[i].ID) = ToLower(id) ELSE models[i].ID = id

RECURSIVE mergeEssentialFrom(_, _, _, _)
\* the essential models from the i-th on, each appended when it is missing
mergeEssentialFrom(models, i, now, foldCase) ==
    IF i > Len(essentialCopilotModels) THEN models
    ELSE LET essential == essentialCopilotModels[i]
         IN mergeEssentialFrom(
                IF hasModelID(models, essential.ID, foldCase) THEN models
                ELSE Append(models, [essential EXCEPT !.Created = now]),
                i + 1, now, foldCase)

\* IDs are compared as they are written
mergeEssentialCopilotModelsCaseSensitive(existing, now) ==
    mergeEssentialFrom(existing, 1, now, FALSE)

mergeEssentialCopilotModels(existing, now) ==
    mergeEssentialFrom(existing, 1, now, TRUE)

CopilotAliasPrefix == "copilot-"

copilotAliasOf(model) ==
    [model EXCEPT !.ID = CopilotAliasPrefix \o model.ID,
                  !.DisplayName = model.DisplayName \o " (Copilot)",
                  !.Description = "Copilot routing alias for " \o model.ID]

RECURSIVE GenerateCopilotAliasesSkipPrefixed(_)
\* a model whose ID already carries the prefix gets no alias
GenerateCopilotAliasesSkipPrefixed(models) ==
    IF models = << >> THEN << >>
    ELSE (IF HasPrefix(Head(models).ID, CopilotAliasPrefix)
          THEN << Head(models) >>
          ELSE << Head(models), copilotAliasOf(Head(models)) >>)
            \o GenerateCopilotAliasesSkipPrefixed(Tail(models))

RECURSIVE GenerateCopilotAliases(_)
GenerateCopilotAliases(models) ==
    IF models = << >> THEN << >>
    ELSE << Head(models), copilotAliasOf(Head(models)) >>
            \o GenerateCopilotAliases(Tail(models))

(***************************************************************************)
(* ConvertOpenAIResponsesRequestToOpenAIChatCompletions, as the            *)
(* specification's FormatTranslator and the test of string content give    *)
(* it: the entries of the input array that are messages (no type, or type  *)
(* message) become the messages, in order; entries of another type are     *)
(* left out.                                                               *)
(***************************************************************************)
recognizedInputItem(item) == ~Exists(item.type) \/ item.type = JStr("message")

\* a typed content part as a part of the flat shape
convertContentPart(part) ==
    CASE part.type \in { JStr("input_text"), JStr("output_text") } -> [part EXCEPT !.type = JStr("text")]
      [] part.type = JStr("input_image") -> [part EXCEPT !.type = JStr("image_url")]
      [] OTHER -> part

convertContent(content) ==
    IF content.t = "array"
    THEN JArr([i \in 1..Len(content.a) |-> convertContentPart(content.a[i])])
    ELSE content

convertInputItem(item) == [role |-> item.role, content |-> convertContent(item.content)]

RECURSIVE convertInputUntilUnrecognized(_)
\* the translation ends at the first entry of another type
convertInputUntilUnrecognized(items) ==
    IF items = << >> \/ ~recognizedInputItem(Head(items)) THEN << >>
    ELSE << convertInputItem(Head(items)) >> \o convertInputUntilUnrecognized(Tail(items))

RECURSIVE convertInput(_)
convertInput(items) ==
    IF items = << >> THEN << >>
    ELSE (IF recognizedInputItem(Head(items)) THEN << convertInputItem(Head(items)) >> ELSE << >>)
            \o convertInput(Tail(items))

ConvertOpenAIResponsesRequestToOpenAIChatCompletions(modelName, body, stream) ==
    [ model |-> JStr(modelName), stream |-> stream,
      messages |-> JArr(IF body.input.t = "array" THEN convertInput(body.input.a) ELSE << >>) ]

(***************************************************************************)
(* registry.ToOpenAIModelMap: the OpenAI model object of a ModelInfo, a    *)
(* map from field names to values; NilModelInfo is the nil pointer and     *)
(* NilModelMap the nil map.                                                *)
(***************************************************************************)
NilModelInfo == [nil |-> TRUE]
NilModelMap == [nil |-> TRUE]

\* the limit and its alias, when the limit is positive
limitFields(name, alias, limit) ==
    IF limit > 0 THEN (name :> limit) @@ (alias :> limit) ELSE << >>

nativeLimitField(name, limit) == IF limit > 0 THEN (name :> limit) ELSE << >>

\* the provider-native limit is taken before the OpenAI-style one
ToOpenAIModelMapNativeFirst(info) ==
    IF info = NilModelInfo THEN NilModelMap
    ELSE LET contextLength == IF info.InputTokenLimit > 0 THEN info.InputTokenLimit
                              ELSE info.ContextLength
             maxCompletionTokens == IF info.OutputTokenLimit > 0 THEN info.OutputTokenLimit
                                    ELSE info.MaxCompletionTokens
         IN [ id |-> info.ID, object |-> "model", created |-> info.Created,
              owned_by |-> info.OwnedBy ]
              @@ limitFields("context_length", "context_window", contextLength)
              @@ limitFields("max_completion_tokens", "max_tokens", maxCompletionTokens)
              @@ nativeLimitField("inputTokenLimit", info.InputTokenLimit)
              @@ nativeLimitField("outputTokenLimit", info.OutputTokenLimit)

ToOpenAIModelMap(info) ==
    IF info = NilModelInfo THEN NilModelMap
    ELSE LET contextLength == IF info.ContextLength <= 0 /\ info.InputTokenLimit > 0
                              THEN info.InputTokenLimit ELSE info.ContextLength
             maxCompletionTokens == IF info.MaxCompletionTokens <= 0 /\ info.OutputTokenLimit > 0
                                    THEN info.OutputTokenLimit ELSE info.MaxCompletionTokens
         IN [ id |-> info.ID, object |-> "model", created |-> info.Created,
              owned_by |-> info.OwnedBy ]
              @@ limitFields("context_length", "context_window", contextLength)
              @@ limitFields("max_completion_tokens", "max_tokens", maxCompletionTokens)
              @@ nativeLimitField("inputTokenLimit", info.InputTokenLimit)
              @@ nativeLimitField("outputTokenLimit", info.OutputTokenLimit)

(***************************************************************************)
(* SpecFn: the functions of the layer that depend on their arguments only, *)
(* each applied once to arguments drawn from the sets below.  No request   *)
(* runs.                                                                   *)
(***************************************************************************)
\* a call that is about to be made
Pending(fn, args) == [fn |-> fn, args |-> args, done |-> FALSE, result |-> <<>>]

\* the call returns
Return(result) == applied' = [applied EXCEPT !.done = TRUE, !.result = result]

requestVars ==
    << executor, initiatorCount, mu, pc, payload, incoming, hints, count,
       isAgentCall, outbound, seed, doneBefore >>

AgentItemRoles ==
    { JAbsent, JNull, JStr(""), JStr("user"), JStr("system"), JStr("developer"),
      JStr("assistant"), JStr("tool"), JStr(" Assistant"), JStr("TOOL ") }
AgentItemTypes ==
    { JAbsent, JStr(""), JStr("message"), JStr("unknown_future_type"), JStr("Function_Call"),
      JStr(" reasoning"), JStr("item_reference") }
       \cup { JStr(t) : t \in responsesAPIAgentTypes }
AgentItems == { Item(role, type) : role \in AgentItemRoles, type \in AgentItemTypes }

\* inbound header sets: nil, empty, or one header line put in with Set
OverrideNames ==
    { "force-copilot-agent", "Force-Copilot-Agent", "FORCE-COPILOT-AGENT", "Force-Copilot-Agents" }
OverrideValues ==
    { "1", "true", "t", "yes", "y", "on", "TRUE", "T", "Yes", "Y", "ON", " on ", "\ttrue",
      "", "  ", "0", "false", "no", "off", "o n", "truthy", "11" }
InboundHeaders ==
    { NilHeader, Header(<<>>) }
       \cup { [nil |-> FALSE, m |-> << << name, value >> >>] :
                 name \in OverrideNames, value \in OverrideValues }

\* the forms of a cache key, at the top level and under metadata
KeyForms == TopKeys \cup MetaKeys \cup { JStr("\tthread-3\n") }

\* credential entries varying the default profile and the two per-model lists
ProfileKey(p, cli, vscode) ==
    [CopilotKey(FALSE, FALSE) EXCEPT !.HeaderProfile = p, !.CLIHeaderModels = cli,
                                     !.VSCodeChatHeaderModels = vscode]
HeaderProfiles == { "", "cli", " VSCode-Chat ", "bogus" }
CLIModelLists == { <<>>, << " Gemini-2.5-Pro " >>, << "o3", "gpt-5" >> }
VSCodeModelLists == { <<>>, << "gpt-5" >>, << "gemini-2.5-pro", "gpt-4" >> }
ProfileEntries ==
    { NilEntry } \cup { Entry(ProfileKey(p, cli, vscode)) :
                           p \in HeaderProfiles, cli \in CLIModelLists, vscode \in VSCodeModelLists }

\* model ids as a request may name them
ModelIDs ==
    { "", "  ", "gpt-4", " GPT-4 ", "gpt-4o", "gpt-5", "GPT-5", " gpt-5", "gemini-2.5-pro",
      "o3", "some-unknown-model", "copilot-", "copilot-gpt-5", "Copilot-o3" }

\* executors varying the first credential entry, which alone selects the profile
ProfileExecutors ==
    { NilExecutor, NilCfgExecutor, Executor(<<>>), Executor(<< PlainKey >>),
      Executor(<< ProfileKey("vscode-chat", <<>>, <<>>), ProfileKey("cli", <<>>, <<>>) >>),
      Executor(<< ProfileKey("cli", <<>>, << "gpt-5" >>) >>) }

\* request headers before the profile step: a new request, the requests
\* applyCopilotHeaders has stamped, and one that carries other editor headers
StampedHeaders ==
    { initiatorHeader(agent) @@ (cliDefaultHeaders @@ HeaderSetAll(<<>>, CopilotHeaders(vision))) :
         agent \in BOOLEAN, vision \in BOOLEAN }
RequestHeaders ==
    { <<>> } \cup StampedHeaders
       \cup { HeaderSetAll(<<>>, << << "X-Initiator", "agent" >>, << "Editor-Version", "vim/9" >>,
                                    << "Openai-Intent", "other" >>, << "Accept", "*/*" >> >>) }

\* model names: bare families, every family with every suffix, other models
AliasSuffixes == { "none", "minimal", "low", "medium", "high", "xhigh", "turbo", "High", "" }
AliasNames ==
    { "", "-", "gpt", "gpt-4o", "gpt-4o-high", "claude-sonnet-4", "claude-sonnet-4-high",
      "gpt-5-codex-mini", "gpt-5.1-codex", "gpt-5.1-codex-high", " gpt-5-high" }
       \cup { codexAliasFamilies[i] : i \in 1..Len(codexAliasFamilies) }
       \cup { codexAliasFamilies[i] \o "-" \o s :
                 i \in 1..Len(codexAliasFamilies), s \in AliasSuffixes }

\* payloads for the alias mutation: {} and payloads that hold a model, a
\* reasoning object, messages and a field the layer does not know
AliasPayloads ==
    [ model : { JAbsent, JStr("gpt-5-high") },
      reasoning_effort : { JAbsent, JStr("low") },
      reasoning_summary : { JAbsent, JStr("auto") },
      messages : { JAbsent, JArr(<< UserMsg >>) },
      unknown : { JAbsent, JStr(" Kept As Is ") } ]
BaseModels == { "gpt-5", "gpt-5.1-codex-max" }
Efforts == { "high", "XHIGH", "  medium  ", " Low", "", "  " }

\* catalogs of up to MaxModels discovered models, and the times of a merge
MaxModels == 2
Timestamps == { 1700000000, 1700000060 }
DiscoveredModels ==
    { ModelInfo("gpt-5", "GPT-5", "Test model"),
      ModelInfo("gemini-3-flash-preview", "Gemini 3 Flash", "Another test"),
      ModelInfo("GEMINI-3-FLASH-PREVIEW", "", ""),
      ModelInfo("copilot-gpt-5", "GPT-5 (Copilot)", "") }
Catalogs == UNION { [1..n -> DiscoveredModels] : n \in 0..MaxModels }

\* typed input arrays of up to MaxInput entries: messages with string and
\* multi-part content, with and without a type, and entries of another type
TypedItems ==
    { [role |-> JStr(role), type |-> type, content |-> content] :
        role \in { "system", "user" },
        type \in { JAbsent, JStr("message"), JStr("item_reference") },
        content \in { JStr("stay concise"), JStr("hello there"),
                      JArr(<< Part("input_text"), Part("input_image") >>) } }
TypedPayloads ==
    { [model |-> JStr("copilot-gpt-4.1"), input |-> JArr(a)] : a \in SeqsUpTo(TypedItems, MaxInput) }

\* registry entries with every combination of absent, negative and positive
\* limits, and the nil entry
LimitedModels ==
    { [ ModelInfo(id, "", "") EXCEPT !.Created = 123,
          !.ContextLength = cl, !.InputTokenLimit = itl,
          !.MaxCompletionTokens = mct, !.OutputTokenLimit = otl ] :
        id \in { "m1", "" }, cl \in { -1, 0, 128000 }, itl \in { -1, 0, 1048576 },
        mct \in { -1, 0, 16384 }, otl \in { -1, 0, 65536 } }

InitFn ==
    /\ executor = NilExecutor
    /\ initiatorCount = EmptyMap
    /\ seed = EmptyMap
    /\ InitRequests
    /\ health = NewHandler
    /\ metrics = New
    /\ \/ \E item \in AgentItems : applied = Pending("isResponsesAPIAgentItem", << item >>)
       \/ \E in \in InboundHeaders : applied = Pending("forceAgentCallFromHeaders", << in >>)
       \/ \E k \in KeyForms, mk \in KeyForms :
             applied = Pending("promptCacheKeyFromPayload", << KeyPayload(k, mk) >>)
       \/ \E entry \in ProfileEntries, id \in ModelIDs :
             applied = Pending("copilotHeaderProfileForModel", << entry, id >>)
       \/ \E e \in ProfileExecutors, m \in RequestHeaders, id \in ModelIDs :
             applied = Pending("applyCopilotHeaderProfile", << e, m, id >>)
       \/ \E name \in AliasNames : applied = Pending("resolveCodexAlias", << name >>)
       \/ \E p \in AliasPayloads, base \in BaseModels, effort \in Efforts :
             applied = Pending("setReasoningEffortByAlias", << p, base, effort >>)
       \/ \E existing \in Catalogs, now \in Timestamps, later \in Timestamps :
             /\ now < later
             /\ applied = Pending("mergeEssentialCopilotModels", << existing, now, later >>)
       \/ \E models \in Catalogs : applied = Pending("GenerateCopilotAliases", << models >>)
       \/ \E p \in TypedPayloads, stream \in BOOLEAN :
             applied = Pending("ConvertOpenAIResponsesRequestToOpenAIChatCompletions",
                               << "copilot-gpt-4.1", p, stream >>)
       \/ \E info \in LimitedModels \cup { NilModelInfo } :
             applied = Pending("ToOpenAIModelMap", << info >>)

ApplyIsResponsesAPIAgentItem ==
    /\ applied.fn = "isResponsesAPIAgentItem"
    /\ ~applied.done
    /\ Return(isResponsesAPIAgentItem(applied.args[1]))
    /\ UNCHANGED << requestVars, health, metrics >>

\* incoming := http.Header{}; incoming.Set(name, value); forceAgentCallFromHeaders(incoming)
ApplyForceAgentCallFromHeaders ==
    /\ applied.fn = "forceAgentCallFromHeaders"
    /\ ~applied.done
    /\ LET in == applied.args[1]
       IN Return(forceAgentCallFromHeaders(
                    IF in.nil THEN NilHeader ELSE Header(HeaderSetAll(<<>>, in.m))))
    /\ UNCHANGED << requestVars, health, metrics >>

ApplyPromptCacheKeyFromPayload ==
    /\ applied.fn = "promptCacheKeyFromPayload"
    /\ ~applied.done
    /\ Return(promptCacheKeyFromPayload(applied.args[1]))
    /\ UNCHANGED << requestVars, health, metrics >>

\* the profile of a model id and the profile of its routing alias copilot-<id>
ApplyCopilotHeaderProfileForModel ==
    /\ applied.fn = "copilotHeaderProfileForModel"
    /\ ~applied.done
    /\ LET entry == applied.args[1]
           id == applied.args[2]
       IN Return([ plain |-> copilotHeaderProfileForModel(entry, id),
                   aliased |-> copilotHeaderProfileForModel(entry, "copilot-" \o id) ])
    /\ UNCHANGED << requestVars, health, metrics >>

ApplyCopilotHeaderProfile ==
    /\ applied.fn = "applyCopilotHeaderProfile"
    /\ ~applied.done
    /\ Return(applyCopilotHeaderProfile(applied.args[1], applied.args[2], applied.args[3]))
    /\ UNCHANGED << requestVars, health, metrics >>

ApplyResolveCodexAlias ==
    /\ applied.fn = "resolveCodexAlias"
    /\ ~applied.done
    /\ Return(resolveCodexAlias(applied.args[1]))
    /\ UNCHANGED << requestVars, health, metrics >>

ApplySetReasoningEffortByAlias ==
    /\ applied.fn = "setReasoningEffortByAlias"
    /\ ~applied.done
    /\ Return(setReasoningEffortByAlias(applied.args[1], applied.args[2], applied.args[3]))
    /\ UNCHANGED << requestVars, health, metrics >>

\* the merge, and the merge of its own output at a later time
ApplyMergeEssentialCopilotModels ==
    /\ applied.fn = "mergeEssentialCopilotModels"
    /\ ~applied.done
    /\ LET once == mergeEssentialCopilotModels(applied.args[1], applied.args[2])
       IN Return([ once |-> once,
                   twice |-> mergeEssentialCopilotModels(once, applied.args[3]) ])
    /\ UNCHANGED << requestVars, health, metrics >>

ApplyGenerateCopilotAliases ==
    /\ applied.fn = "GenerateCopilotAliases"
    /\ ~applied.done
    /\ Return(GenerateCopilotAliases(applied.args[1]))
    /\ UNCHANGED << requestVars, health, metrics >>

ApplyConvertOpenAIResponsesRequest ==
    /\ applied.fn = "ConvertOpenAIResponsesRequestToOpenAIChatCompletions"
    /\ ~applied.done
    /\ Return(ConvertOpenAIResponsesRequestToOpenAIChatCompletions(
                  applied.args[1], applied.args[2], applied.args[3]))
    /\ UNCHANGED << requestVars, health, metrics >>

ApplyToOpenAIModelMap ==
    /\ applied.fn = "ToOpenAIModelMap"
    /\ ~applied.done
    /\ Return(ToOpenAIModelMap(applied.args[1]))
    /\ UNCHANGED << requestVars, health, metrics >>

NextFn ==
    \/ ApplyIsResponsesAPIAgentItem
    \/ ApplyForceAgentCallFromHeaders
    \/ ApplyPromptCacheKeyFromPayload
    \/ ApplyCopilotHeaderProfileForModel
    \/ ApplyCopilotHeaderProfile
    \/ ApplyResolveCodexAlias
    \/ ApplySetReasoningEffortByAlias
    \/ ApplyMergeEssentialCopilotModels
    \/ ApplyGenerateCopilotAliases
    \/ ApplyConvertOpenAIResponsesRequest
    \/ ApplyToOpenAIModelMap

SpecFn == InitFn /\ [][NextFn]_vars

\* the call of fn has returned
Applied(fn) == applied.fn = fn /\ applied.done

(***************************************************************************)
(* SpecHealth: the health handler from its construction, with up to        *)
(* MaxSetReady calls of SetReady and any number of requests.               *)
(* SpecMetrics: NumCalls concurrent calls on a new metrics module.         *)
(***************************************************************************)
InitModules ==
    /\ executor = NilExecutor
    /\ initiatorCount = EmptyMap
    /\ seed = EmptyMap
    /\ InitRequests
    /\ applied = NoCall
    /\ health = NewHandler
    /\ metrics = New

NextHealth ==
    \/ RegisterRoutes
    \/ \E ready \in BOOLEAN : SetReady(ready)
    \/ Health
    \/ Ready
    \/ Live

SpecHealth == InitModules /\ [][NextHealth]_vars

Configs == { "nil", "off", "on" }
RecordOps == { "RecordRequest", "RecordTokens", "SetCredentialsCount", "RecordError" }
TokenCounts == { 0, 7 }

NextMetrics ==
    \E p \in Callers :
        \/ \E cfg \in Configs : Register(p, cfg)
        \/ RegisterCollector(p)
        \/ RegisterFinish(p)
        \/ \E cfg \in Configs : OnConfigUpdated(p, cfg)
        \/ metricsHandler(p)
        \/ \E op \in RecordOps, tokens \in TokenCounts :
              /\ (op # "RecordTokens" => tokens = 7)
              /\ RecordBegin(p, op, tokens)
        \/ RecordEnd(p)

SpecMetrics == InitModules /\ [][NextMetrics]_vars

(***************************************************************************)
(* Vocabulary of the properties: what a request was, read off its payload, *)
(* its inbound headers and the configuration, and how it was classified.   *)
(***************************************************************************)
Done(r) == pc[r] = "done"

\* the X-Initiator header of the outbound request
Initiator(r) ==
    IF "X-Initiator" \in DOMAIN outbound[r] THEN outbound[r]["X-Initiator"][1] ELSE ""

RoleOf(entry) == ToLower(TrimSpace(String(entry.role)))

\* the entries of both arrays
Entries(pl) == Array(pl.messages) \o Array(pl.input)

NoTopLevelFields(pl) ==
    /\ pl.previous_response_id = JAbsent
    /\ pl.tools = JAbsent
    /\ pl.functions = JAbsent
    /\ pl.tool_choice = JAbsent

\* a payload that is only user messages
PureUserPayload(pl) ==
    /\ NoTopLevelFields(pl)
    /\ Entries(pl) # <<>>
    /\ \A i \in 1..Len(Entries(pl)) :
          /\ RoleOf(Entries(pl)[i]) = "user"
          /\ String(Entries(pl)[i].type) \notin responsesAPIAgentTypes

TruthyValues == {"1", "true", "t", "yes", "y", "on"}

\* the inbound override header is set to a truthy value
OverrideHeader(inc) ==
    /\ ~inc.nil
    /\ "Force-Copilot-Agent" \in DOMAIN inc.m
    /\ inc.m["Force-Copilot-Agent"] # <<>>
    /\ ToLower(TrimSpace(inc.m["Force-Copilot-Agent"][1])) \in TruthyValues

\* some credential entry sets the flag
CredentialForce == \E i \in DOMAIN executor.CopilotKey : executor.CopilotKey[i].ForceAgentCall
CredentialPersist ==
    \E i \in DOMAIN executor.CopilotKey : executor.CopilotKey[i].AgentInitiatorPersist

CacheKey(r) == hints[r].promptCacheKey

Began(r) == pc[r] # "idle"

\* a pure-user request with no force flag, which only the persistence rule decides
PlainUserRequest(r) ==
    /\ Began(r)
    /\ PureUserPayload(payload[r])
    /\ ~OverrideHeader(incoming[r])
    /\ ~CredentialForce

\* a plain user request that carries a cache key while persistence is enabled
Racer(r) == PlainUserRequest(r) /\ CredentialPersist /\ CacheKey(r) # ""

CacheKeys == {K1, K2}

UsersOn(k) == { r \in Requests : Done(r) /\ Racer(r) /\ CacheKey(r) = k /\ Initiator(r) = "user" }

(***************************************************************************)
(* C1: with persistence enabled, among the requests that carry the same    *)
(* new cache key and a pure-user payload, at most one is classified user   *)
(* and all the others agent, however they interleave.                      *)
(***************************************************************************)
C1_AtMostOneUser ==
    \A k \in CacheKeys :
        /\ Cardinality(UsersOn(k)) <= 1
        /\ \A r \in Requests :
              Done(r) /\ Racer(r) /\ CacheKey(r) = k /\ r \notin UsersOn(k)
                  => Initiator(r) = "agent"

\* all requests raced on K1: none had returned when another began
C1_Witness ==
    /\ \A r \in Requests : Done(r) /\ Racer(r) /\ CacheKey(r) = K1 /\ doneBefore[r] = {}
    /\ Cardinality(UsersOn(K1)) = 1

(***************************************************************************)
(* C2: with persistence enabled and no force flag, a pure-user payload     *)
(* with key K is classified user on the first call with K and agent on     *)
(* every later call with K; with an unseen key it is classified user.      *)
(* A later call is one that began after a call with K had returned; the    *)
(* first call is one that returned before any other call with K began.     *)
(***************************************************************************)
C2_FirstUserThenAgent ==
    \A r \in Requests :
        Done(r) /\ Racer(r) =>
            /\ (\E q \in doneBefore[r] : Racer(q) /\ CacheKey(q) = CacheKey(r))
                  => Initiator(r) = "agent"
            /\ (\A q \in Requests \ {r} :
                    Racer(q) /\ CacheKey(q) = CacheKey(r) => r \in doneBefore[q])
                  => Initiator(r) = "user"

\* K1 first (user), K1 again (agent), then the unseen K2 (user)
C2_Witness ==
    /\ \A r \in 1..3 : Done(r) /\ Racer(r)
    /\ CacheKey(1) = K1 /\ CacheKey(2) = K1 /\ CacheKey(3) = K2
    /\ 1 \in doneBefore[2] /\ 2 \in doneBefore[3]
    /\ Initiator(1) = "user" /\ Initiator(2) = "agent" /\ Initiator(3) = "user"

(***************************************************************************)
(* C3: when persistence is disabled, or the payload has no non-empty       *)
(* cache key, a pure-user payload with no force flag is classified user    *)
(* on every call, however often it was sent before.                        *)
(***************************************************************************)
C3_UserEveryCall ==
    \A r \in Requests :
        Done(r) /\ PlainUserRequest(r) /\ (~CredentialPersist \/ CacheKey(r) = "")
            => Initiator(r) = "user"

\* the same payload three times in a row without persistence, each time user
C3_Witness ==
    /\ ~CredentialPersist
    /\ \A r \in 1..3 : Done(r) /\ PlainUserRequest(r) /\ CacheKey(r) = K1 /\ Initiator(r) = "user"
    /\ 1 \in doneBefore[2] /\ 2 \in doneBefore[3]

(***************************************************************************)
(* C4: no step decreases, resets or removes the counter of a cache key.    *)
(***************************************************************************)
C4_CountersNeverDecrease ==
    [][ /\ DOMAIN initiatorCount \subseteq DOMAIN initiatorCount'
        /\ \A k \in CacheKeys : MapGet(initiatorCount', k) >= MapGet(initiatorCount, k) ]_vars

\* a counter that has been incremented more than once
C4_Witness == MapGet(initiatorCount, K1) >= 3

(***************************************************************************)
(* C5: the decision is the ordered rule list, first match wins: override   *)
(* header, credential force flag, agent signal, no user content, last item *)
(* not user, each agent; then, with persistence enabled and a non-empty    *)
(* key, user iff the key's counter was 0 before the call; otherwise user.  *)
(***************************************************************************)
ReferenceRules(h, force, persist, before) ==
    << <<h.forceAgentFromHeaders, "agent">>,
       <<force, "agent">>,
       <<h.agentFromPayload, "agent">>,
       <<~h.userFromPayload, "agent">>,
       <<~h.lastUserFromPayload, "agent">>,
       <<persist /\ h.promptCacheKey # "", IF before = 0 THEN "user" ELSE "agent">>,
       <<TRUE, "user">> >>

FirstMatch(rules) == rules[CHOOSE i \in 1..Len(rules) : rules[i][1] /\ \A j \in 1..(i - 1) : ~rules[j][1]][2]

C5_DecisionOrder ==
    Done(1) =>
        Initiator(1) = FirstMatch(ReferenceRules(hints[1], CredentialForce, CredentialPersist,
                                                 MapGet(seed, CacheKey(1))))

\* the persistence rule decided, on a key counted before: agent
C5_Witness ==
    /\ Done(1)
    /\ Racer(1)
    /\ MapGet(seed, CacheKey(1)) = 1
    /\ Initiator(1) = "agent"

(***************************************************************************)
(* C6: a truthy inbound override header gives agent for every payload,     *)
(* every configuration and every state of the counters.                    *)
(***************************************************************************)
C6_OverrideHeaderWins ==
    Done(1) /\ OverrideHeader(incoming[1]) => Initiator(1) = "agent"

\* a pure single-user-message payload, no flag in the configuration, new key
C6_Witness ==
    /\ Done(1)
    /\ OverrideHeader(incoming[1])
    /\ PureUserPayload(payload[1])
    /\ ~CredentialForce
    /\ seed = EmptyMap
    /\ Initiator(1) = "agent"

(***************************************************************************)
(* C7: a payload with an assistant/tool-role entry or an input item of a   *)
(* tool/function-call type at any position is classified agent, also when  *)
(* its last entry is a user message and its cache key is new.              *)
(***************************************************************************)
AgentRoles == {"assistant", "tool"}

HasAgentEntry(pl) ==
    \/ \E i \in 1..Len(Array(pl.messages)) : RoleOf(Array(pl.messages)[i]) \in AgentRoles
    \/ \E i \in 1..Len(Array(pl.input)) :
          \/ RoleOf(Array(pl.input)[i]) \in AgentRoles
          \/ String(Array(pl.input)[i].type) \in responsesAPIAgentTypes

C7_AgentEntryAnywhere ==
    Done(1) /\ HasAgentEntry(payload[1]) => Initiator(1) = "agent"

LastRole(arr) == IF Array(arr) = <<>> THEN "" ELSE RoleOf(Array(arr)[Len(Array(arr))])

\* a role-less function_call item followed by a user item, first call for the key
C7_Witness ==
    /\ Done(1)
    /\ payload[1].messages = JAbsent
    /\ Len(Array(payload[1].input)) = 2
    /\ String(Array(payload[1].input)[1].type) = "function_call"
    /\ RoleOf(Array(payload[1].input)[1]) = ""
    /\ LastRole(payload[1].input) = "user"
    /\ String(Array(payload[1].input)[2].type) = ""
    /\ ~CredentialForce /\ CredentialPersist /\ seed = EmptyMap
    /\ Initiator(1) = "agent"

(***************************************************************************)
(* C8: among the top-level fields, agentFromPayload is forced exactly by a *)
(* non-empty previous_response_id, a non-empty tools array, a non-empty    *)
(* functions array, or a tool_choice other than the literal none; absent   *)
(* or empty fields do not force it.  Stated for payloads whose arrays give *)
(* no agent signal.                                                        *)
(***************************************************************************)
SilentArrays(pl) ==
    \A i \in 1..Len(Entries(pl)) :
        /\ RoleOf(Entries(pl)[i]) \in {"", "user"}
        /\ String(Entries(pl)[i].type) \notin responsesAPIAgentTypes

NonEmptyArray(v) == v.t = "array" /\ v.a # <<>>

Empty(v) == v \in { JAbsent, JNull, JStr("") }

ClaimedTopLevelSignal(pl) ==
    \/ ~Empty(pl.previous_response_id)
    \/ NonEmptyArray(pl.tools)
    \/ NonEmptyArray(pl.functions)
    \/ ~Empty(pl.tool_choice) /\ pl.tool_choice # JStr("none")

C8_TopLevelNonEmpty ==
    Done(1) /\ SilentArrays(payload[1])
        => hints[1].agentFromPayload = ClaimedTopLevelSignal(payload[1])

PresentTopLevelSignal(pl) ==
    \/ pl.previous_response_id # JAbsent
    \/ NonEmptyArray(pl.tools)
    \/ NonEmptyArray(pl.functions)
    \/ pl.tool_choice # JAbsent /\ pl.tool_choice # JStr("none")

\* C8, as amended: among the top-level fields agentFromPayload is forced
\* exactly by a previous_response_id that is present (also as "" or null), a
\* non-empty tools or functions array, or a tool_choice that is present and
\* not the string none (also as "" or null).
C8_TopLevelPresent ==
    Done(1) /\ SilentArrays(payload[1])
        => hints[1].agentFromPayload = PresentTopLevelSignal(payload[1])

\* an empty previous_response_id alone, with empty tools and functions
C8_Witness ==
    /\ Done(1)
    /\ SilentArrays(payload[1])
    /\ payload[1].previous_response_id = JStr("")
    /\ payload[1].tools = JArr(<<>>)
    /\ payload[1].functions = JArr(<<>>)
    /\ payload[1].tool_choice = JStr("none")
    /\ hints[1].agentFromPayload

(***************************************************************************)
(* C9: a payload with no user-role entry in either array is classified     *)
(* agent, whatever the configuration and the counters.                     *)
(***************************************************************************)
HasUserEntry(pl) == \E i \in 1..Len(Entries(pl)) : RoleOf(Entries(pl)[i]) = "user"

C9_NoUserIsAgent ==
    Done(1) /\ ~HasUserEntry(payload[1]) => Initiator(1) = "agent"

\* an empty messages array, nothing else that could make it agent
C9_Witness ==
    /\ Done(1)
    /\ payload[1].messages = JArr(<<>>)
    /\ payload[1].input = JAbsent
    /\ NoTopLevelFields(payload[1])
    /\ ~OverrideHeader(incoming[1])
    /\ ~CredentialForce
    /\ Initiator(1) = "agent"

(***************************************************************************)
(* C10: a request is classified user only if the last item of the payload  *)
(* is user-authored: whenever the last entry of a messages or input array  *)
(* present in the payload does not have role user, it is classified agent, *)
(* payloads carrying both arrays included.                                 *)
(***************************************************************************)
LastEntryNotUser(arr) == Array(arr) # <<>> /\ LastRole(arr) # "user"

C10_LastItemUser ==
    Done(1) /\ (LastEntryNotUser(payload[1].messages) \/ LastEntryNotUser(payload[1].input))
        => Initiator(1) = "agent"

(***************************************************************************)
(* C11: in the scan of the messages array, a user role sets                *)
(* userFromPayload, and lastUserFromPayload when the entry is the last;    *)
(* every other non-empty role, assistant, tool and system among them, sets *)
(* agentFromPayload.  So a system message followed by a user message is    *)
(* classified agent, and a payload of user messages only is classified     *)
(* user when nothing forces agent and its key was not counted before.      *)
(* Stated for payloads with the messages array alone.                      *)
(***************************************************************************)
MessagesOnly(pl) == IsArray(pl.messages) /\ pl.input = JAbsent /\ NoTopLevelFields(pl)

MessageRoles(pl) == [i \in 1..Len(Array(pl.messages)) |-> RoleOf(Array(pl.messages)[i])]

C11_MessageRoles ==
    (Began(1) /\ MessagesOnly(payload[1])) =>
        LET roles == MessageRoles(payload[1])
            n == Len(roles)
        IN /\ hints[1].userFromPayload = (\E i \in 1..n : roles[i] = "user")
           /\ hints[1].lastUserFromPayload = (n > 0 /\ roles[n] = "user")
           /\ hints[1].agentFromPayload = (\E i \in 1..n : roles[i] \notin {"", "user"})
           /\ (Done(1) /\ roles = << "system", "user" >>) => Initiator(1) = "agent"
           /\ ( /\ Done(1)
                /\ n > 0
                /\ \A i \in 1..n : roles[i] = "user"
                /\ ~CredentialForce
                /\ ~OverrideHeader(incoming[1])
                /\ MapGet(seed, CacheKey(1)) = 0 ) => Initiator(1) = "user"

C11_Witness ==
    /\ Done(1)
    /\ executor = NilCfgExecutor
    /\ MessagesOnly(payload[1])
    /\ MessageRoles(payload[1]) = << "system", "user" >>
    /\ hints[1].lastUserFromPayload
    /\ Initiator(1) = "agent"

(***************************************************************************)
(* C12: isResponsesAPIAgentItem is true exactly when the role of the item  *)
(* is assistant or tool, or its type is one of the fifteen listed types;   *)
(* items of role user or system and items of an unknown type that have     *)
(* neither give false.                                                     *)
(***************************************************************************)
ListedAgentTypes ==
    { "function_call", "function_call_output", "computer_call", "computer_call_output",
      "web_search_call", "file_search_call", "code_interpreter_call", "local_shell_call",
      "local_shell_call_output", "mcp_call", "mcp_list_tools", "mcp_approval_request",
      "mcp_approval_response", "image_generation_call", "reasoning" }

C12_AgentItemExactly ==
    Applied("isResponsesAPIAgentItem") =>
        LET item == applied.args[1]
            listed == String(item.type) \in ListedAgentTypes
        IN /\ applied.result = (RoleOf(item) \in {"assistant", "tool"} \/ listed)
           /\ (RoleOf(item) \in {"user", "system"} /\ ~listed) => ~applied.result
           /\ (RoleOf(item) = "" /\ ~listed) => ~applied.result

C12_Witness ==
    /\ Applied("isResponsesAPIAgentItem")
    /\ applied.args[1].role = JAbsent
    /\ applied.args[1].type = JStr("reasoning")
    /\ applied.result

(***************************************************************************)
(* C13: after every call of applyCopilotHeaders, whatever the              *)
(* classification, the outbound request carries X-Initiator with the       *)
(* literal user or agent, the fixed block (X-Interaction-Type,             *)
(* Openai-Intent, the X-Stainless-* headers, User-Agent) with its constant *)
(* values, and the vision header set to true exactly when hasVision.       *)
(***************************************************************************)
FixedBlock ==
    << <<"X-Interaction-Type", "conversation-agent">>,
       <<"Openai-Intent", "conversation-agent">>,
       <<"X-Stainless-Retry-Count", "0">>,
       <<"X-Stainless-Lang", "js">>,
       <<"X-Stainless-Package-Version", "5.20.1">>,
       <<"X-Stainless-OS", "Linux">>,
       <<"X-Stainless-Arch", "arm64">>,
       <<"X-Stainless-Runtime", "node">>,
       <<"X-Stainless-Runtime-Version", "v22.15.0">>,
       <<"User-Agent", CopilotUserAgent>> >>

\* the block as it sits in a header map
FixedBlockHeaders == HeaderSetAll(<<>>, FixedBlock)

VisionHeader(r) ==
    IF "Copilot-Vision-Request" \in DOMAIN outbound[r]
    THEN outbound[r]["Copilot-Vision-Request"] ELSE <<>>

C13_AlwaysStamped ==
    Done(1) =>
        /\ Initiator(1) \in {"user", "agent"}
        /\ outbound[1]["X-Initiator"] = << IF isAgentCall[1] THEN "agent" ELSE "user" >>
        /\ \A k \in DOMAIN FixedBlockHeaders :
              k \in DOMAIN outbound[1] /\ outbound[1][k] = FixedBlockHeaders[k]
        /\ (VisionHeader(1) = << "true" >>) = hints[1].hasVision

C13_Witness ==
    /\ Done(1)
    /\ Initiator(1) = "user"
    /\ hints[1].hasVision
    /\ VisionHeader(1) = << "true" >>
    /\ HeaderGet(Header(outbound[1]), "Copilot-Integration-Id") = "vscode-chat"
    /\ HeaderGet(Header(outbound[1]), "X-Stainless-Arch") = "arm64"

(***************************************************************************)
(* C14: hasVision is true exactly when the array content of some messages  *)
(* entry has a part of type image_url or the array content of some input   *)
(* entry has a part of type input_image, over both arrays when both are    *)
(* present, whatever the roles and whatever the classification.            *)
(***************************************************************************)
HasPartOfType(arr, t) ==
    \E i \in 1..Len(arr) :
        /\ IsArray(arr[i].content)
        /\ \E j \in 1..Len(Array(arr[i].content)) : Array(arr[i].content)[j].type = JStr(t)

C14_VisionIff ==
    Began(1) =>
        hints[1].hasVision =
            ( \/ HasPartOfType(Array(payload[1].messages), "image_url")
              \/ HasPartOfType(Array(payload[1].input), "input_image") )

C14_Witness ==
    /\ Done(1)
    /\ hints[1].hasVision
    /\ ~HasPartOfType(Array(payload[1].messages), "image_url")
    /\ HasPartOfType(Array(payload[1].input), "input_image")
    /\ HasPartOfType(Array(payload[1].input), "image_url")
    /\ Initiator(1) = "agent"

(***************************************************************************)
(* C15: forceAgentFromHeaders is true exactly when the inbound header set  *)
(* has the override header, its name matched whatever the case, with a     *)
(* value that is one of 1, true, t, yes, y, on once surrounding white      *)
(* space is dropped and the case ignored; a nil set, a missing header, an  *)
(* empty value and every other value give false.                           *)
(***************************************************************************)
TruthyOverride(in) ==
    /\ ~in.nil
    /\ \E i \in 1..Len(in.m) :
          /\ ToLower(in.m[i][1]) = "force-copilot-agent"
          /\ ToLower(TrimSpace(in.m[i][2])) \in TruthyValues

C15_ForceFromHeaders ==
    Applied("forceAgentCallFromHeaders") =>
        /\ applied.result = TruthyOverride(applied.args[1])
        /\ (applied.args[1].nil \/ applied.args[1].m = <<>>) => ~applied.result

C15_Witness ==
    /\ Applied("forceAgentCallFromHeaders")
    /\ applied.args[1] = [nil |-> FALSE, m |-> << << "FORCE-COPILOT-AGENT", " on " >> >>]
    /\ applied.result

(***************************************************************************)
(* C16: promptCacheKey is the trimmed top-level prompt_cache_key when that *)
(* is not empty, else the trimmed metadata.prompt_cache_key when that is   *)
(* not empty, else the empty string; a top-level value of white space only *)
(* falls through to the metadata value.                                    *)
(***************************************************************************)
\* the trimmed text of a key; a key that is absent or null has none
Trimmed(v) == IF v.t = "string" THEN TrimSpace(v.s) ELSE ""

C16_PromptCacheKey ==
    Applied("promptCacheKeyFromPayload") =>
        LET top == Trimmed(applied.args[1].prompt_cache_key)
            meta == Trimmed(applied.args[1].metadata_prompt_cache_key)
        IN applied.result = IF top # "" THEN top ELSE IF meta # "" THEN meta ELSE ""

C16_Witness ==
    /\ Applied("promptCacheKeyFromPayload")
    /\ applied.args[1].prompt_cache_key = JStr("  ")
    /\ applied.args[1].metadata_prompt_cache_key = JStr(" thread-2 ")
    /\ applied.result = K2

(***************************************************************************)
(* C17: copilotHeaderProfileForModel always returns CLI or VSCodeChat, by  *)
(* the first rule that matches: empty normalized model, CLI; empty         *)
(* de-aliased model, CLI; de-aliased model gpt-4, CLI; entry present and   *)
(* model in its CLI list, CLI; entry present and model in its VSCode list, *)
(* VSCodeChat; entry present with a recognized default profile, that       *)
(* profile; model in the built-in allowlist, CLI; otherwise VSCodeChat.    *)
(***************************************************************************)
Normalized(model) == ToLower(TrimSpace(model))

DeAliased(model) ==
    LET m == Normalized(model)
    IN IF Len(m) >= 8 /\ SubSeq(m, 1, 8) = "copilot-" THEN SubSeq(m, 9, Len(m)) ELSE m

Listed(list, model) == \E i \in 1..Len(list) : Normalized(list[i]) = DeAliased(model)

ProfileRules(entry, model) ==
    LET present == ~entry.nil
        default == IF present THEN Normalized(entry.key.HeaderProfile) ELSE ""
    IN << << Normalized(model) = "", "cli" >>,
          << DeAliased(model) = "", "cli" >>,
          << DeAliased(model) = "gpt-4", "cli" >>,
          << present /\ Listed(entry.key.CLIHeaderModels, model), "cli" >>,
          << present /\ Listed(entry.key.VSCodeChatHeaderModels, model), "vscode-chat" >>,
          << default \in {"cli", "vscode-chat"}, default >>,
          << DeAliased(model) \in defaultCopilotCLIHeaderModels, "cli" >>,
          << TRUE, "vscode-chat" >> >>

C17_ProfilePrecedence ==
    Applied("copilotHeaderProfileForModel") =>
        LET entry == applied.args[1]
            id == applied.args[2]
        IN /\ applied.result.plain \in {"cli", "vscode-chat"}
           /\ applied.result.aliased \in {"cli", "vscode-chat"}
           /\ applied.result.plain = FirstMatch(ProfileRules(entry, id))
           /\ applied.result.aliased = FirstMatch(ProfileRules(entry, "copilot-" \o id))

\* a per-model CLI override beats the default profile vscode-chat
C17_Witness ==
    /\ Applied("copilotHeaderProfileForModel")
    /\ ~applied.args[1].nil
    /\ Normalized(applied.args[1].key.HeaderProfile) = "vscode-chat"
    /\ applied.args[1].key.CLIHeaderModels = << " Gemini-2.5-Pro " >>
    /\ applied.args[2] = "gemini-2.5-pro"
    /\ applied.result.plain = "cli"

(***************************************************************************)
(* C18: for every configuration and every model id, the profile selected   *)
(* for copilot-<id> is the profile selected for <id>.                      *)
(***************************************************************************)
C18_AliasInvisible ==
    Applied("copilotHeaderProfileForModel") => applied.result.aliased = applied.result.plain

(***************************************************************************)
(* C19: applying the CLI profile changes no header of the request;         *)
(* applying the VSCodeChat profile sets Copilot-Integration-Id,            *)
(* Editor-Plugin-Version, Editor-Version, VScode-SessionId,                *)
(* VScode-MachineId and OpenAI-Intent to their constants and leaves every  *)
(* other header as it was, X-Initiator, the vision header, User-Agent and  *)
(* the X-Stainless-* headers among them.                                   *)
(***************************************************************************)
ProfileHeaders ==
    HeaderSetAll(<<>>, << << "Copilot-Integration-Id", "vscode-chat" >>,
                          << "Editor-Plugin-Version", "copilot-chat/0.35.2" >>,
                          << "Editor-Version", "vscode/1.108.0-insider" >>,
                          << "VScode-SessionId", "00000000-0000-0000-0000-000000000000" >>,
                          << "VScode-MachineId", "00000000-0000-0000-0000-000000000000" >>,
                          << "OpenAI-Intent", "conversation-agent" >> >>)

\* the profile selected for the call
SelectedProfile ==
    copilotHeaderProfileForModel(copilotKeyConfig(applied.args[1]), applied.args[3])

C19_ProfileFrame ==
    Applied("applyCopilotHeaderProfile") =>
        LET before == applied.args[2]
            after == applied.result
        IN /\ SelectedProfile = "cli" => after = before
           /\ SelectedProfile = "vscode-chat" =>
                 /\ DOMAIN after = DOMAIN before \cup DOMAIN ProfileHeaders
                 /\ \A k \in DOMAIN ProfileHeaders : after[k] = ProfileHeaders[k]
                 /\ \A k \in DOMAIN before \ DOMAIN ProfileHeaders : after[k] = before[k]
           /\ "X-Initiator" \in DOMAIN before =>
                 "X-Initiator" \in DOMAIN after /\ after["X-Initiator"] = before["X-Initiator"]

C19_Witness ==
    /\ Applied("applyCopilotHeaderProfile")
    /\ SelectedProfile = "vscode-chat"
    /\ applied.args[2] \in StampedHeaders
    /\ applied.args[2]["X-Initiator"] = << "agent" >>
    /\ "Copilot-Vision-Request" \in DOMAIN applied.args[2]
    /\ applied.result # applied.args[2]
    /\ applied.result["X-Initiator"] = << "agent" >>

(***************************************************************************)
(* C20: initiatorCount is read and written only by the request that holds  *)
(* mu, and mu is held for one read-and-increment only; no update is lost:  *)
(* at every moment the counter of a key is the number of requests that     *)
(* reached the persistence rule with that key and have written, so when    *)
(* all requests have returned it is the number of those that reached it.   *)
(***************************************************************************)
InLockedSection(r) == pc[r] \in {"read", "write", "unlock"}

\* requests that reached the persistence rule with key k and have incremented
Counted(k) == { r \in Requests : Racer(r) /\ CacheKey(r) = k /\ pc[r] \in {"unlock", "done"} }

C20_NoLostUpdate ==
    /\ \A r \in Requests : InLockedSection(r) => mu = r
    /\ mu # 0 => InLockedSection(mu)
    /\ \A r \in Requests : (pc[r] = "lock" \/ InLockedSection(r)) => Racer(r)
    /\ \A k \in CacheKeys : MapGet(initiatorCount, k) = Cardinality(Counted(k))

\* all requests met on one key and each was counted
C20_Witness ==
    /\ \A r \in Requests : Done(r) /\ Racer(r) /\ CacheKey(r) = K1 /\ doneBefore[r] = {}
    /\ MapGet(initiatorCount, K1) = NumRequests

(***************************************************************************)
(* C21: resolveCodexAlias returns a result for every model name.  The      *)
(* empty string, a bare family name and a model of another family give     *)
(* ok=false with empty base and effort; <family>-<effort> with an effort   *)
(* of that family gives ok=true with that base and effort; the longest     *)
(* family prefix fixes the family, so gpt-5-codex is not gpt-5 with effort *)
(* codex, and an effort outside the family's set gives ok=false.           *)
(***************************************************************************)
KnownFamilies ==
    { "gpt-5", "gpt-5-codex", "gpt-5.1", "gpt-5.1-codex-max", "gpt-5.2", "gpt-5.2-codex" }

RECURSIVE LastHyphen(_, _)
\* the position of the last hyphen of s at or before i, 0 when there is none
LastHyphen(s, i) == IF i = 0 THEN 0 ELSE IF CharAt(s, i) = "-" THEN i ELSE LastHyphen(s, i - 1)

\* the name before its last hyphen, and the suffix after it
BaseOf(name) == SubSeq(name, 1, LastHyphen(name, Len(name)) - 1)
SuffixOf(name) == SubSeq(name, LastHyphen(name, Len(name)) + 1, Len(name))

IsAlias(name) ==
    /\ LastHyphen(name, Len(name)) > 0
    /\ BaseOf(name) \in KnownFamilies
    /\ SuffixOf(name) \in codexAliasEfforts[BaseOf(name)]

C21_AliasResolver ==
    Applied("resolveCodexAlias") =>
        LET name == applied.args[1]
            r == applied.result
        IN /\ r.ok \in BOOLEAN
           /\ r.ok = IsAlias(name)
           /\ r.ok => r.baseModel = BaseOf(name) /\ r.effort = SuffixOf(name)
           /\ ~r.ok => r.baseModel = "" /\ r.effort = ""
           /\ (name = "" \/ name \in KnownFamilies) => ~r.ok
           /\ name = "gpt-5-codex-low" => r.baseModel = "gpt-5-codex"

C21_Witness ==
    /\ Applied("resolveCodexAlias")
    /\ applied.args[1] = "gpt-5.1-codex-max-xhigh"
    /\ applied.result = [baseModel |-> "gpt-5.1-codex-max", effort |-> "xhigh", ok |-> TRUE]

(***************************************************************************)
(* C22: setReasoningEffortByAlias sets the top-level model to the base     *)
(* model whatever was there; a non-empty effort is stored in               *)
(* reasoning.effort trimmed and lower-cased; an effort that is empty after *)
(* trimming writes no reasoning.effort (a payload without one still has    *)
(* none, and none is ever the empty string); every other field keeps its   *)
(* value.                                                                  *)
(***************************************************************************)
StoredEffort ==
    [ e \in Efforts |->
        CASE e = "high" -> "high"
          [] e = "XHIGH" -> "xhigh"
          [] e = "  medium  " -> "medium"
          [] e = " Low" -> "low"
          [] OTHER -> "" ]

C22_MutationFrame ==
    Applied("setReasoningEffortByAlias") =>
        LET p == applied.args[1]
            base == applied.args[2]
            e == StoredEffort[applied.args[3]]
            r == applied.result
        IN /\ r.model = JStr(base)
           /\ e # "" => r.reasoning_effort = JStr(e)
           /\ e = "" => r.reasoning_effort = p.reasoning_effort
           /\ (e = "" /\ ~Exists(p.reasoning_effort)) => ~Exists(r.reasoning_effort)
           /\ r.reasoning_effort # JStr("")
           /\ DOMAIN r = DOMAIN p
           /\ \A f \in DOMAIN p \ { "model", "reasoning_effort" } : r[f] = p[f]

C22_Witness ==
    /\ Applied("setReasoningEffortByAlias")
    /\ applied.args[1].model = JStr("gpt-5-high")
    /\ Exists(applied.args[1].unknown)
    /\ ~Exists(applied.args[1].reasoning_effort)
    /\ applied.args[3] = "  medium  "
    /\ applied.result.model = JStr(applied.args[2])
    /\ applied.result.reasoning_effort = JStr("medium")

(***************************************************************************)
(* C23: mergeEssentialCopilotModels keeps the existing entries in their    *)
(* order as a prefix of the result, appends one synthesized entry for each *)
(* essential model whose ID (ignoring case) is not in the catalog, adds    *)
(* nothing when applied to its own output, and a catalog without two IDs   *)
(* equal ignoring case stays without them.                                 *)
(***************************************************************************)
IDs(models) == { models[i].ID : i \in 1..Len(models) }

EssentialIDs == { "gemini-3-flash-preview" }

\* the essential IDs no entry of the catalog spells, in any case
MissingEssential(models) ==
    { id \in EssentialIDs : id \notin IDs(models) /\ "GEMINI-3-FLASH-PREVIEW" \notin IDs(models) }

NoFoldedDuplicates(models) ==
    \A i, j \in 1..Len(models) :
        i # j => /\ models[i].ID # models[j].ID
                 /\ { models[i].ID, models[j].ID }
                        # { "gemini-3-flash-preview", "GEMINI-3-FLASH-PREVIEW" }

C23_MergeEssential ==
    Applied("mergeEssentialCopilotModels") =>
        LET existing == applied.args[1]
            now == applied.args[2]
            once == applied.result.once
            added == SubSeq(once, Len(existing) + 1, Len(once))
        IN /\ Len(once) >= Len(existing)
           /\ SubSeq(once, 1, Len(existing)) = existing
           /\ IDs(added) = MissingEssential(existing)
           /\ Len(added) = Cardinality(MissingEssential(existing))
           /\ \A i \in 1..Len(added) :
                 /\ added[i].Created = now
                 /\ added[i].OwnedBy = "copilot" /\ added[i].Type = "copilot"
                 /\ added[i].Object = "model"
                 /\ added[i].ContextLength > 0 /\ added[i].MaxCompletionTokens > 0
                 /\ "tools" \in added[i].SupportedParameters
           /\ applied.result.twice = once
           /\ NoFoldedDuplicates(existing) => NoFoldedDuplicates(once)

C23_Witness ==
    /\ Applied("mergeEssentialCopilotModels")
    /\ Len(applied.args[1]) = 2
    /\ applied.args[1][1].ID = "gpt-5"
    /\ applied.args[1][2].ID = "copilot-gpt-5"
    /\ Len(applied.result.once) = 3
    /\ applied.result.once[3].ID = "gemini-3-flash-preview"
    /\ applied.result.twice = applied.result.once

(***************************************************************************)
(* C24: GenerateCopilotAliases returns twice as many entries as it is      *)
(* given: for every model the entry itself and an alias entry whose ID is  *)
(* copilot- followed by the model's ID.                                    *)
(***************************************************************************)
C24_AliasesDouble ==
    Applied("GenerateCopilotAliases") =>
        LET models == applied.args[1]
            r == applied.result
        IN /\ Len(r) = 2 * Len(models)
           /\ \E at \in [1..Len(models) -> 1..Len(r)] :
                 /\ \A i, j \in 1..Len(models) : i # j => at[i] # at[j]
                 /\ \A i \in 1..Len(models) : r[at[i]] = models[i]
           /\ \E at \in [1..Len(models) -> 1..Len(r)] :
                 /\ \A i, j \in 1..Len(models) : i # j => at[i] # at[j]
                 /\ \A i \in 1..Len(models) :
                       /\ r[at[i]].ID = "copilot-" \o models[i].ID
                       /\ r[at[i]] # models[i]

C24_Witness ==
    /\ Applied("GenerateCopilotAliases")
    /\ Len(applied.args[1]) = 2
    /\ applied.args[1][1].ID = "gpt-5"
    /\ applied.args[1][2].ID = "copilot-gpt-5"
    /\ Len(applied.result) = 4
    /\ \E j \in 1..4 : applied.result[j].ID = "copilot-copilot-gpt-5"

(***************************************************************************)
(* C25: ConvertOpenAIResponsesRequestToOpenAIChatCompletions turns the     *)
(* entries of the input array that are messages into the messages, in the  *)
(* same order, each with its role and, when its content is a string, with  *)
(* that string; an entry of another type is left out and the entries after *)
(* it are still translated.                                                *)
(***************************************************************************)
IsMessageEntry(item) == item.type \in { JAbsent, JStr("message") }

C25_TranslationOrder ==
    Applied("ConvertOpenAIResponsesRequestToOpenAIChatCompletions") =>
        LET kept == SelectSeq(applied.args[2].input.a, IsMessageEntry)
            msgs == applied.result.messages
        IN /\ msgs.t = "array"
           /\ Len(msgs.a) = Len(kept)
           /\ \A i \in 1..Len(kept) :
                 /\ msgs.a[i].role = kept[i].role
                 /\ kept[i].content.t = "string" => msgs.a[i].content = kept[i].content

C25_Witness ==
    /\ Applied("ConvertOpenAIResponsesRequestToOpenAIChatCompletions")
    /\ Len(applied.args[2].input.a) = 2
    /\ applied.args[2].input.a[1].type = JStr("item_reference")
    /\ applied.args[2].input.a[2].type = JAbsent
    /\ applied.args[2].input.a[2].content = JStr("hello there")
    /\ applied.result.messages = JArr(<< [role |-> JStr("user"), content |-> JStr("hello there")] >>)

(***************************************************************************)
(* C26: ToOpenAIModelMap gives context_length the value of ContextLength   *)
(* when that is positive, else of InputTokenLimit when that is positive,   *)
(* and else leaves it out; context_window is there exactly when            *)
(* context_length is, with the same value; max_completion_tokens and       *)
(* max_tokens follow the same rule with MaxCompletionTokens and            *)
(* OutputTokenLimit; id, object, created and owned_by are there for every  *)
(* model that is not nil.                                                  *)
(***************************************************************************)
\* the first positive of the two limits, 0 when neither is positive
FirstPositive(preferred, fallback) ==
    CASE preferred > 0 -> preferred
      [] fallback > 0 -> fallback
      [] OTHER -> 0

\* the field and its alias are both there with this value, or both left out
EmittedAs(r, name, alias, limit) ==
    /\ (name \in DOMAIN r) = (limit > 0)
    /\ (alias \in DOMAIN r) = (name \in DOMAIN r)
    /\ limit > 0 => r[name] = limit /\ r[alias] = limit

C26_ModelMapLimits ==
    (Applied("ToOpenAIModelMap") /\ applied.args[1] # NilModelInfo) =>
        LET info == applied.args[1]
            r == applied.result
        IN /\ { "id", "object", "created", "owned_by" } \subseteq DOMAIN r
           /\ r["id"] = info.ID /\ r["object"] = "model"
           /\ r["created"] = info.Created /\ r["owned_by"] = info.OwnedBy
           /\ EmittedAs(r, "context_length", "context_window",
                        FirstPositive(info.ContextLength, info.InputTokenLimit))
           /\ EmittedAs(r, "max_completion_tokens", "max_tokens",
                        FirstPositive(info.MaxCompletionTokens, info.OutputTokenLimit))

C26_Witness ==
    /\ Applied("ToOpenAIModelMap")
    /\ applied.args[1] # NilModelInfo
    /\ applied.args[1].ContextLength = 128000
    /\ applied.args[1].InputTokenLimit = 1048576
    /\ applied.args[1].MaxCompletionTokens = 0
    /\ applied.args[1].OutputTokenLimit = 65536
    /\ applied.result["context_window"] = 128000
    /\ applied.result["max_tokens"] = 65536

(***************************************************************************)
(* C27: a request decided by one of the rules a-e (override header,        *)
(* credential force flag, agent signal in the payload, no user content,    *)
(* last item not user) never enters the read-and-increment and is stamped  *)
(* agent, a counter is positive only when a pure-user request under        *)
(* persistence has incremented it, and so a pure-user request under        *)
(* persistence is stamped user when no other pure-user request has used    *)
(* its key, whatever requests decided by rules a-e have used it.           *)
(***************************************************************************)
ByRulesAtoE(r) ==
    /\ Began(r)
    /\ \/ hints[r].forceAgentFromHeaders
       \/ CredentialForce
       \/ hints[r].agentFromPayload
       \/ ~hints[r].userFromPayload
       \/ ~hints[r].lastUserFromPayload

\* the other pure-user requests under persistence on the key of r that have
\* reached the counter
OtherUsersOfKey(r) ==
    { q \in Requests \ { r } : Racer(q) /\ CacheKey(q) = CacheKey(r) /\ pc[q] # "lock" }

C27_EarlyRulesKeepCounters ==
    /\ \A r \in Requests : ByRulesAtoE(r) => Done(r) /\ Initiator(r) = "agent"
    /\ \A k \in DOMAIN initiatorCount :
          \E r \in Requests : Racer(r) /\ CacheKey(r) = k /\ pc[r] \in { "unlock", "done" }
    /\ \A r \in Requests :
          (Done(r) /\ Racer(r) /\ OtherUsersOfKey(r) = {}) => Initiator(r) = "user"

\* a pure-user request on K1 stamped user after requests on K1 decided by
\* the override header and by the payload
C27_Witness ==
    /\ \A r \in Requests : Done(r) /\ CacheKey(r) = K1
    /\ hints[1].forceAgentFromHeaders
    /\ ~hints[2].forceAgentFromHeaders /\ ByRulesAtoE(2)
    /\ 2 \in doneBefore[3]
    /\ Racer(3)
    /\ Initiator(3) = "user"
    /\ MapGet(initiatorCount, K1) = 1

(***************************************************************************)
(* C28: the force-agent and persist-initiator flags hold when any          *)
(* credential entry of the configuration sets them: with ForceAgentCall in *)
(* any entry every request is stamped agent; with AgentInitiatorPersist in *)
(* any entry (and no force flag) a pure-user request with a cache key is   *)
(* counted, user on a new key and agent on a counted one; with a nil       *)
(* executor or a nil configuration neither flag holds: nothing is counted  *)
(* and a pure-user request is stamped user.                                *)
(***************************************************************************)
NoConfiguration == executor.nil \/ executor.cfgNil

C28_FlagsOverAllEntries ==
    Done(1) =>
        LET user == PureUserPayload(payload[1]) /\ ~OverrideHeader(incoming[1])
            k == CacheKey(1)
        IN /\ CredentialForce => Initiator(1) = "agent" /\ initiatorCount = seed
           /\ (CredentialPersist /\ ~CredentialForce /\ user /\ k # "") =>
                 /\ Initiator(1) = IF MapGet(seed, k) = 0 THEN "user" ELSE "agent"
                 /\ initiatorCount = MapSet(seed, k, MapGet(seed, k) + 1)
           /\ (~CredentialPersist /\ ~CredentialForce /\ user) =>
                 Initiator(1) = "user" /\ initiatorCount = seed
           /\ (NoConfiguration /\ user) => Initiator(1) = "user" /\ initiatorCount = seed

\* both flags set by the second entry only: agent, nothing counted
C28_Witness ==
    /\ Done(1)
    /\ Len(executor.CopilotKey) = 2
    /\ ~executor.CopilotKey[1].ForceAgentCall
    /\ executor.CopilotKey[2].ForceAgentCall
    /\ PureUserPayload(payload[1])
    /\ ~OverrideHeader(incoming[1])
    /\ CacheKey(1) # ""
    /\ Initiator(1) = "agent"
    /\ initiatorCount = seed

(***************************************************************************)
(* C29: the health handler starts not ready; GET /health/ready answers 200 *)
(* exactly when the last SetReady call before it passed true, and 503      *)
(* otherwise (also when SetReady was never called); GET /health and        *)
(* GET /health/live answer 200 in every state.                             *)
(***************************************************************************)
\* the value of the last SetReady call made before the response, FALSE when none was
LastSetReady ==
    IF health.response.after = 0 THEN FALSE ELSE health.setReady[health.response.after]

C29_Readiness ==
    /\ health.setReady = << >> => ~health.ready
    /\ health.response.path = "/health/ready" =>
          health.response.code = IF LastSetReady THEN 200 ELSE 503
    /\ health.response.path \in { "/health", "/health/live" } => health.response.code = 200

\* ready, then not ready again, and the readiness request answers 503
C29_Witness ==
    /\ health.setReady = << FALSE, TRUE, FALSE >>
    /\ health.response = [path |-> "/health/ready", code |-> 503, status |-> "not ready",
                          after |-> 3]

(***************************************************************************)
(* C30: under every interleaving of the calls on the metrics module, a     *)
(* recording call changes a metric only if at some moment of the call the  *)
(* module was enabled and Register had returned or had at least begun, and *)
(* then all the collectors it uses had been created; the /metrics handler  *)
(* answers 404 when it reads the module disabled; a Register call on a     *)
(* registered module returns nil at once and creates nothing.              *)
(***************************************************************************)
C30_MetricsGuarded ==
    \A p \in Callers :
        LET call == metrics.calls[p]
        IN /\ call.changed => call.live
           /\ call.changed => collectorsOf[call.op] \subseteq metrics.collectors
           /\ (call.op = "metricsHandler" /\ ~call.enabled) => call.code = 404
           /\ (call.op = "Register" /\ call.registeredBefore) =>
                 call.pc = "done" /\ call.status = "nil"
====
